---- MODULE Spec2Model ----
\* Pipeline orchestration engine of gravitic-celestial: the analysis stage
\* graph (extract / validate / reflect once / dead-letter / emit), the
\* orchestrator calls of GraphRuntime (run_ingestion_cycle, analyze_filing,
\* index_analysis, replay_filing), run_backfill, and the two state-store
\* backends (SQLite StateManager, PostgresStateManager) they write to.
EXTENDS Integers, Sequences, FiniteSets

\* ------------------------------------------------------------------
\* Bounds of the model
\* ------------------------------------------------------------------
MaxReplay == 2
MaxRecords == 2
MaxGraphSteps == 8

Accessions == {"A1", "A2"}

RECURSIVE SeqsUpTo(_)
SeqsUpTo(n) ==
    IF n = 0 THEN {<<>>}
    ELSE LET shorter == SeqsUpTo(n - 1)
         IN shorter \cup {Append(s, a) : s \in {t \in shorter : Len(t) = n - 1}, a \in Accessions}

\* record lists a provider can return (duplicates allowed)
RecordLists == SeqsUpTo(MaxRecords)

\* ------------------------------------------------------------------
\* Extraction results (what adapter.generate_json can return)
\* ------------------------------------------------------------------
NoKey == "<absent>"

\* has_value: the item has the key "value"; value_null: the key is there and
\* its value is JSON null
Kpi(metric, hasValue) ==
    [dict |-> TRUE, metric |-> metric, has_value |-> hasValue, raw_metric |-> NoKey,
     value_null |-> FALSE]

NonDictItem ==
    [dict |-> FALSE, metric |-> NoKey, has_value |-> FALSE, raw_metric |-> NoKey,
     value_null |-> FALSE]

\* a JSON value is a dict or not; a dict has "kpis" as a list or as something else
Json(isDict, kpisIsList, kpis) == [dict |-> isDict, kpis_list |-> kpisIsList, kpis |-> kpis]

EmptyDict == Json(TRUE, FALSE, <<>>)

AdapterOutputs ==
    { Json(FALSE, FALSE, <<>>),                                  \* not a dict at all
      EmptyDict,                                                 \* {}
      Json(TRUE, TRUE, <<>>),                                    \* {"kpis": []}
      Json(TRUE, TRUE, <<Kpi("EPS", TRUE)>>),                    \* no revenue KPI
      Json(TRUE, TRUE, <<Kpi("Revenue", TRUE)>>),
      Json(TRUE, TRUE, <<Kpi("Net Sales", TRUE)>>),              \* revenue alias
      Json(TRUE, TRUE, <<Kpi("Revenue", TRUE), Kpi("EPS", FALSE)>>), \* item without "value"
      Json(TRUE, TRUE, <<NonDictItem>>) }

\* answers of adapter.generate_text to the revenue-equivalence probe;
\* "<absent>" is an adapter without generate_text, "<raise>" one that raises
TextAnswers == {"YES", "NO", "", "<raise>", NoKey}

REQUIRED_KPI_KEYS == {"metric", "value"}

REVENUE_ALIASES ==
    {"revenue", "net sales", "sales", "turnover", "top line",
     "total revenue", "product revenue", "services revenue"}

\* str(item.get("metric", "")).lower() for the metric names of the model
Lower(metric) ==
    CASE metric = "Revenue" -> "revenue"
      [] metric = "Net Sales" -> "net sales"
      [] metric = "EPS" -> "eps"
      [] OTHER -> ""

\* the Python test `alias in lower` (substring) on the lowered names above
AliasIn(alias, lower) ==
    \/ alias = lower
    \/ alias = "sales" /\ lower = "net sales"

HasRevenueAlias(item) ==
    \E alias \in REVENUE_ALIASES : AliasIn(alias, Lower(item.metric))

\* a normalization that renames the alias and forgets the original name
_normalize_metric_aliases_drops_original(data) ==
    IF ~data.kpis_list THEN data
    ELSE [data EXCEPT !.kpis =
            [i \in 1..Len(data.kpis) |->
                LET item == data.kpis[i]
                IN IF item.dict /\ HasRevenueAlias(item) /\ item.metric # "Revenue"
                   THEN [item EXCEPT !.metric = "Revenue"]
                   ELSE item]]

_normalize_metric_aliases(data) ==
    IF ~data.kpis_list THEN data
    ELSE [data EXCEPT !.kpis =
            [i \in 1..Len(data.kpis) |->
                LET item == data.kpis[i]
                IN IF item.dict /\ HasRevenueAlias(item) /\ item.metric # "Revenue"
                   THEN [item EXCEPT !.raw_metric = IF item.raw_metric = NoKey
                                                    THEN item.metric ELSE item.raw_metric,
                                     !.metric = "Revenue"]
                   ELSE item]]

\* ExtractionEngine.extract, given what generate_json returned
extract(output) ==
    IF ~output.dict THEN EmptyDict ELSE _normalize_metric_aliases(output)

_contains_revenue_metric(kpis) ==
    \E i \in 1..Len(kpis) : HasRevenueAlias(kpis[i])

\* the part of is_valid that decides without the adapter:
\* "invalid", "valid", or "ask" (falls through to _llm_deduces_revenue)
StructuralVerdict(data) ==
    IF data = EmptyDict THEN "invalid"
    ELSE IF ~data.kpis_list \/ Len(data.kpis) = 0 THEN "invalid"
    ELSE IF \E i \in 1..Len(data.kpis) :
              \/ ~data.kpis[i].dict
              \/ data.kpis[i].metric = NoKey
              \/ ~data.kpis[i].has_value THEN "invalid"
    ELSE IF _contains_revenue_metric(data.kpis) THEN "valid"
    ELSE "ask"

\* _llm_deduces_revenue, given the adapter's answer
_llm_deduces_revenue(answer) ==
    IF answer \in {NoKey, "<raise>"} THEN FALSE ELSE answer = "YES"

is_valid(data, answer) ==
    LET verdict == StructuralVerdict(data)
    IN IF verdict = "ask" THEN _llm_deduces_revenue(answer) ELSE verdict = "valid"

\* does is_valid call adapter.generate_text for this data and adapter
InvokesGenerateText(data, answer) ==
    StructuralVerdict(data) = "ask" /\ answer # NoKey

\* ------------------------------------------------------------------
\* State store: filings table of the two backends
\* ------------------------------------------------------------------
Backends == {"sqlite", "pg"}

Statuses == {"INGESTED", "ANALYZED", "ANALYZED_NOT_INDEXED", "DEAD_LETTER"}

Row(status, reason, error, replays) ==
    [status |-> status, dead_letter_reason |-> reason, last_error |-> error, replay_count |-> replays]

\* no row for the accession
NoRow == Row("NONE", "", "", 0)

has_accession(fl, a) == fl[a] # NoRow

\* StateManager.upsert_filing: the SQLite table has a status column only
sqlite_upsert_filing(fl, a, status) ==
    [fl EXCEPT ![a] = Row(status, "", "", 0)]

\* variant: the upsert replaces the whole row, replay_count included
pg_upsert_filing_resets_replays(fl, a, status, reason, error) ==
    [fl EXCEPT ![a] = Row(status, reason, error, 0)]

\* PostgresStateManager.upsert_filing: status, dead_letter_reason and
\* last_error are overwritten, replay_count is left alone (0 on insert)
pg_upsert_filing(fl, a, status, reason, error) ==
    [fl EXCEPT ![a] = Row(status, reason, error, fl[a].replay_count)]

\* result of a state-store call: the table after it and the exception raised
StoreResult(fl, raised) == [filings |-> fl, raised |-> raised]

\* mark_ingested(accession, ticker, url, filing_type=, item_code=, filing_date=)
\* as IngestionNodes.emit_filing_payload calls it
mark_ingested(be, fl, a) ==
    IF be = "sqlite" THEN StoreResult(sqlite_upsert_filing(fl, a, "INGESTED"), "none")
    ELSE StoreResult(pg_upsert_filing(fl, a, "INGESTED", "", ""), "none")

\* mark_ingested(..., market=, exchange=, issuer_id=, ...) as run_backfill
\* calls it: StateManager.mark_ingested has no such parameters
mark_ingested_with_market(be, fl, a) ==
    IF be = "sqlite" THEN StoreResult(fl, "TypeError")
    ELSE StoreResult(pg_upsert_filing(fl, a, "INGESTED", "", ""), "none")

\* variant: mark_analyzed writes nothing
mark_analyzed_keeps_status(be, fl, a) == StoreResult(fl, "none")

mark_analyzed(be, fl, a) ==
    IF be = "sqlite" THEN StoreResult(sqlite_upsert_filing(fl, a, "ANALYZED"), "none")
    ELSE StoreResult(pg_upsert_filing(fl, a, "ANALYZED", "", ""), "none")

mark_analyzed_not_indexed(be, fl, a) ==
    IF be = "sqlite" THEN StoreResult(sqlite_upsert_filing(fl, a, "ANALYZED_NOT_INDEXED"), "none")
    ELSE StoreResult(pg_upsert_filing(fl, a, "ANALYZED_NOT_INDEXED", "", ""), "none")

\* variant: mark_dead_letter does not pass the reason on
pg_mark_dead_letter_drops_reason(fl, a, reason, error) ==
    pg_upsert_filing(fl, a, "DEAD_LETTER", "", error)

\* PostgresStateManager.mark_dead_letter(accession, ticker, url, reason=None, error=None)
pg_mark_dead_letter(fl, a, reason, error) ==
    pg_upsert_filing(fl, a, "DEAD_LETTER", reason, error)

\* mark_dead_letter(accession, ticker, url, reason=..., error=...) as
\* GraphRuntime.analyze_filing calls it: StateManager.mark_dead_letter takes
\* (accession_number, ticker, filing_url) only
mark_dead_letter(be, fl, a, reason, error) ==
    IF be = "sqlite" THEN StoreResult(fl, "TypeError")
    ELSE StoreResult(pg_mark_dead_letter(fl, a, reason, error), "none")

\* PostgresStateManager.mark_replay_attempt
mark_replay_attempt(fl, a) ==
    IF fl[a] = NoRow THEN fl
    ELSE [fl EXCEPT ![a].replay_count = @ + 1]

\* ------------------------------------------------------------------
\* Checkpoint store: (graph, thread) -> last saved state
\* ------------------------------------------------------------------
CkptKeys ==
    {<<"ingestion", "default">>}
        \cup {<<"analysis", a>> : a \in Accessions}
        \cup {<<"knowledge", a>> : a \in Accessions}

\* variant: the row is keyed by graph_name alone
save_state_ignores_thread(ck, graph, thread, value) ==
    [k \in DOMAIN ck |-> IF k[1] = graph THEN value ELSE ck[k]]

save_state(ck, graph, thread, value) == [ck EXCEPT ![<<graph, thread>>] = value]

load_state(ck, graph, thread) == ck[<<graph, thread>>]

\* ------------------------------------------------------------------
\* State
\* ------------------------------------------------------------------
VARIABLES
    backend,         \* which backends create_backends selected
    filings,         \* state store: accession -> row (NoRow when absent)
    ckpt,            \* checkpoint store: (graph, thread) -> saved state
    attempts,        \* replay attempts made per accession
    call,            \* the orchestrator call in progress
    pc,              \* position: "idle", "analyze_done", ..., or a graph node
    an_out,          \* outcome of the analyze_filing call just finished
    ret,             \* what the finished top-level call gave its caller
    state,           \* the analysis graph's state dict
    json_calls,      \* adapter.generate_json invocations of the analysis run
    text_calls       \* adapter.generate_text invocations of the analysis run

vars == <<backend, filings, ckpt, attempts, call, pc, an_out, ret,
          state, json_calls, text_calls>>

stores == <<backend, filings, ckpt, attempts>>

graph_vars == <<state, json_calls, text_calls>>

Call(op, a, mode, selected, preStatus, preCkpt, queue) ==
    [op |-> op, acc |-> a, mode |-> mode, selected |-> selected,
     pre_status |-> preStatus, pre_ckpt |-> preCkpt, queue |-> queue]

NoCall == Call("none", "", "", "", "", "", <<>>)

\* result of a top-level call: kind is what the caller gets ("raised" with
\* the exception in exc, or the kind of value returned)
BaseRet(op, a) ==
    [op |-> op, acc |-> a, kind |-> "none", exc |-> "none", mode |-> "",
     analyzed |-> FALSE, indexed |-> FALSE, stage_exc |-> "none", payloads |-> <<>>,
     provider_called |-> FALSE, adapter_called |-> FALSE]

NoRet == BaseRet("none", "")

Raised(op, a, exc) == [BaseRet(op, a) EXCEPT !.kind = "raised", !.exc = exc]

AnOut(kind, exc, adapterRaised, writes) ==
    [kind |-> kind, exc |-> exc, adapter_raised |-> adapterRaised, writes |-> writes]

NoAnOut == AnOut("none", "none", FALSE, 0)

\* state = {"filing_payload": payload, "trace": [], "errors": []}
InitialState ==
    [trace |-> <<>>, errors |-> <<>>, analysis_dict |-> EmptyDict,
     reflection_attempted |-> FALSE, is_valid |-> FALSE, analysis |-> FALSE,
     dead_letter |-> "", exc |-> "none"]

Init ==
    /\ backend \in Backends
    /\ filings = [a \in Accessions |-> NoRow]
    /\ ckpt = [k \in CkptKeys |-> "none"]
    /\ attempts = [a \in Accessions |-> 0]
    /\ call = NoCall
    /\ pc = "idle"
    /\ an_out = NoAnOut
    /\ ret = NoRet
    /\ state = InitialState
    /\ json_calls = 0
    /\ text_calls = 0

\* ------------------------------------------------------------------
\* Analysis stage graph (AnalystNodes, GraphRuntime._build_analysis_graph)
\* ------------------------------------------------------------------
\* a run of the graph: the node to execute next, the state dict and the
\* number of adapter invocations so far
Graph(node, st, jsonCalls, textCalls) ==
    [pc |-> node, state |-> st, json_calls |-> jsonCalls, text_calls |-> textCalls]

\* what one adapter.generate_json call does: raise, or return an output
Responses ==
    {[raises |-> FALSE, output |-> o] : o \in AdapterOutputs}
        \cup {[raises |-> TRUE, output |-> EmptyDict]}

\* variant: the router does not look at reflection_attempted
route_never_gives_up(st) ==
    IF st.is_valid THEN "emit" ELSE "reflect"

route_after_validation(st) ==
    IF st.is_valid THEN "emit"
    ELSE IF st.reflection_attempted THEN "dead_letter"
    ELSE "reflect"

\* the conditional edges out of validate_json
AnalysisEdge(route) ==
    CASE route = "reflect" -> "reflection_retry_once"
      [] route = "dead_letter" -> "dead_letter"
      [] route = "emit" -> "emit_analysis_payload"

build_prompt(g) ==
    [g EXCEPT !.state.trace = Append(@, "build_prompt"),
              !.pc = "call_gemini_extract"]

\* a raising adapter: the node does not return and graph.invoke raises
call_gemini_extract(g, resp) ==
    IF resp.raises
    THEN [g EXCEPT !.state.exc = "adapter_error", !.json_calls = @ + 1, !.pc = "raised"]
    ELSE [g EXCEPT !.state.analysis_dict = extract(resp.output),
                   !.state.reflection_attempted = FALSE,
                   !.state.trace = Append(@, "call_gemini_extract"),
                   !.json_calls = @ + 1,
                   !.pc = "validate_json"]

validate_json(g, answer) ==
    LET st == [g.state EXCEPT !.is_valid = is_valid(g.state.analysis_dict, answer),
                              !.trace = Append(@, "validate_json")]
    IN [g EXCEPT !.state = st,
                 !.text_calls = IF InvokesGenerateText(g.state.analysis_dict, answer)
                                THEN @ + 1 ELSE @,
                 !.pc = AnalysisEdge(route_after_validation(st))]

\* variant: the reflection node leaves reflection_attempted unset
reflection_retry_forgets_flag(g, resp) ==
    IF resp.raises
    THEN [g EXCEPT !.state.exc = "adapter_error", !.json_calls = @ + 1, !.pc = "raised"]
    ELSE [g EXCEPT !.state.analysis_dict = extract(resp.output),
                   !.state.trace = Append(@, "reflection_retry_once"),
                   !.json_calls = @ + 1,
                   !.pc = "validate_json"]

reflection_retry_once(g, resp) ==
    IF resp.raises
    THEN [g EXCEPT !.state.exc = "adapter_error", !.json_calls = @ + 1, !.pc = "raised"]
    ELSE [g EXCEPT !.state.analysis_dict = extract(resp.output),
                   !.state.reflection_attempted = TRUE,
                   !.state.trace = Append(@, "reflection_retry_once"),
                   !.json_calls = @ + 1,
                   !.pc = "validate_json"]

dead_letter(g) ==
    [g EXCEPT !.state.errors = Append(@, "analysis_validation_failed"),
              !.state.dead_letter = "validation_failed_after_reflection",
              !.state.trace = Append(@, "dead_letter"),
              !.pc = "END"]

emit_analysis_payload(g) ==
    [g EXCEPT !.state.analysis = TRUE,
              !.state.trace = Append(@, "emit_analysis_payload"),
              !.pc = "END"]

\* the run in progress, and the step to a next run state
Current == Graph(pc, state, json_calls, text_calls)

GoTo(g) ==
    /\ pc' = g.pc
    /\ state' = g.state
    /\ json_calls' = g.json_calls
    /\ text_calls' = g.text_calls
    /\ UNCHANGED <<stores, call, an_out, ret>>

step_build_prompt ==
    /\ pc = "build_prompt"
    /\ GoTo(build_prompt(Current))

step_call_gemini_extract ==
    /\ pc = "call_gemini_extract"
    /\ \E resp \in Responses : GoTo(call_gemini_extract(Current, resp))

step_validate_json ==
    /\ pc = "validate_json"
    /\ \E answer \in TextAnswers : GoTo(validate_json(Current, answer))

step_reflection_retry_once ==
    /\ pc = "reflection_retry_once"
    /\ \E resp \in Responses : GoTo(reflection_retry_once(Current, resp))

step_dead_letter ==
    /\ pc = "dead_letter"
    /\ GoTo(dead_letter(Current))

step_emit_analysis_payload ==
    /\ pc = "emit_analysis_payload"
    /\ GoTo(emit_analysis_payload(Current))

\* one analysis run, node by node: analysis_graph.invoke(state)
InitAnalysis ==
    /\ backend \in Backends
    /\ filings = [a \in Accessions |-> NoRow]
    /\ ckpt = [k \in CkptKeys |-> "none"]
    /\ attempts = [a \in Accessions |-> 0]
    /\ call = NoCall
    /\ pc = "build_prompt"
    /\ an_out = NoAnOut
    /\ ret = NoRet
    /\ state = InitialState
    /\ json_calls = 0
    /\ text_calls = 0

NextAnalysis ==
    \/ step_build_prompt
    \/ step_call_gemini_extract
    \/ step_validate_json
    \/ step_reflection_retry_once
    \/ step_dead_letter
    \/ step_emit_analysis_payload

SpecAnalysis == InitAnalysis /\ [][NextAnalysis]_vars

\* the whole run as analyze_filing sees it: the adapter's behaviour is a
\* script of its answers to the (at most) two extractions and two probes
Scripts ==
    [first : Responses, answer1 : TextAnswers, second : Responses, answer2 : TextAnswers]

NodeStep(g, script) ==
    CASE g.pc = "build_prompt" -> build_prompt(g)
      [] g.pc = "call_gemini_extract" -> call_gemini_extract(g, script.first)
      [] g.pc = "validate_json" ->
            validate_json(g, IF g.state.reflection_attempted THEN script.answer2
                             ELSE script.answer1)
      [] g.pc = "reflection_retry_once" -> reflection_retry_once(g, script.second)
      [] g.pc = "dead_letter" -> dead_letter(g)
      [] g.pc = "emit_analysis_payload" -> emit_analysis_payload(g)

\* graph.invoke: nodes run until END or an exception; the graph runtime
\* gives up (raises) on a run longer than its step limit
RECURSIVE RunGraph(_, _, _)
RunGraph(g, script, fuel) ==
    IF g.pc \in {"END", "raised"} \/ fuel = 0 THEN g
    ELSE RunGraph(NodeStep(g, script), script, fuel - 1)

\* what analyze_filing reads of the finished run
Final(g) ==
    [raised |-> g.pc # "END",
     exc |-> IF g.pc \in {"END", "raised"} THEN g.state.exc ELSE "recursion_limit",
     analysis |-> g.state.analysis,
     dead_letter |-> g.state.dead_letter, errors |-> g.state.errors]

GraphFinals ==
    {Final(RunGraph(Graph("build_prompt", InitialState, 0, 0), script, MaxGraphSteps)) :
        script \in Scripts}

\* ------------------------------------------------------------------
\* GraphRuntime.analyze_filing
\* ------------------------------------------------------------------
\* "; ".join(str(item) for item in errors if item)
JoinErrors(errors) == IF errors = <<>> THEN "" ELSE errors[1]

\* analyze_filing once graph.invoke has returned or raised (fin): the
\* checkpoint save, the status write and the return value
analyze_filing_outcome(be, fl, ck, a, fin, saveFails) ==
    LET failed == fin.raised \/ saveFails
        exc == IF fin.raised THEN fin.exc ELSE "checkpoint_error"
        saved == IF failed THEN ck
                 ELSE save_state(ck, "analysis", a,
                                 IF fin.analysis THEN "with_analysis" ELSE "without_analysis")
        reason == IF fin.dead_letter # "" THEN fin.dead_letter ELSE "analysis_validation_failed"
        marked == IF failed THEN mark_dead_letter(be, fl, a, "analysis_graph_exception", exc)
                  ELSE IF fin.analysis THEN mark_analyzed(be, fl, a)
                  ELSE mark_dead_letter(be, fl, a, reason, JoinErrors(fin.errors))
    IN [filings |-> marked.filings,
        ckpt |-> saved,
        writes |-> IF marked.raised = "none" THEN 1 ELSE 0,
        kind |-> IF marked.raised # "none" THEN "raised"
                 ELSE IF ~failed /\ fin.analysis THEN "analysis" ELSE "none",
        exc |-> marked.raised]

\* one analyze_filing(payload of a) on the table fl, for some behaviour of
\* the adapter and of the checkpoint store
AnalyzeFiling(fl, a) ==
    \E fin \in GraphFinals, saveFails \in BOOLEAN :
        /\ saveFails => ~fin.raised
        /\ LET out == analyze_filing_outcome(backend, fl, ckpt, a, fin, saveFails)
           IN /\ filings' = out.filings
              /\ ckpt' = out.ckpt
              /\ an_out' = AnOut(out.kind, out.exc, fin.raised, out.writes)

\* a caller hands analyze_filing a payload that an ingestion produced
analyze_filing ==
    /\ pc = "idle"
    /\ \E a \in Accessions :
         /\ has_accession(filings, a)
         /\ AnalyzeFiling(filings, a)
         /\ call' = Call("analyze", a, "", "", filings[a].status, "", <<>>)
    /\ pc' = "analyze_done"
    /\ UNCHANGED <<backend, attempts, ret, graph_vars>>

analyze_filing_return ==
    /\ pc = "analyze_done"
    /\ call.op = "analyze"
    /\ ret' = [BaseRet("analyze", call.acc) EXCEPT
                  !.kind = an_out.kind, !.exc = an_out.exc,
                  !.analyzed = (an_out.kind = "analysis"), !.adapter_called = TRUE]
    /\ pc' = "returned"
    /\ UNCHANGED <<backend, filings, ckpt, attempts, call, an_out, graph_vars>>

\* the caller takes the result; the runtime is ready for the next call
caller_receives ==
    /\ pc = "returned"
    /\ pc' = "idle"
    /\ call' = NoCall
    /\ an_out' = NoAnOut
    /\ ret' = NoRet
    /\ UNCHANGED <<stores, graph_vars>>

\* ------------------------------------------------------------------
\* GraphRuntime.index_analysis
\* ------------------------------------------------------------------
\* where the knowledge stage can raise: in the index_chroma node
\* (add_documents), in the update_bm25 node, in _to_index_receipt, or in
\* checkpoint_store.save_state
IndexFaults == {"none", "add_documents", "update_bm25", "index_receipt", "save_state"}

\* variant: the except branch records the status and returns instead of
\* re-raising
index_analysis_outcome_swallows(be, fl, ck, a, fault) ==
    IF fault = "none"
       THEN [filings |-> fl, ckpt |-> save_state(ck, "knowledge", a, "saved"),
             exc |-> "none", stage_exc |-> fault]
       ELSE [filings |-> mark_analyzed_not_indexed(be, fl, a).filings, ckpt |-> ck,
             exc |-> "none", stage_exc |-> fault]

index_analysis_outcome(be, fl, ck, a, fault) ==
    IF fault = "none"
       THEN [filings |-> fl, ckpt |-> save_state(ck, "knowledge", a, "saved"),
             exc |-> "none", stage_exc |-> fault]
       ELSE [filings |-> mark_analyzed_not_indexed(be, fl, a).filings, ckpt |-> ck,
             exc |-> fault, stage_exc |-> fault]

\* one index_analysis(analysis of a), for some behaviour of the stores; r is
\* the caller's result when it succeeds
IndexAnalysis(fl, a, op, r) ==
    \E fault \in IndexFaults :
        LET out == index_analysis_outcome(backend, fl, ckpt, a, fault)
        IN /\ filings' = out.filings
           /\ ckpt' = out.ckpt
           /\ ret' = IF out.exc = "none"
                     THEN [r EXCEPT !.indexed = TRUE, !.stage_exc = out.stage_exc]
                     ELSE [Raised(op, a, out.exc) EXCEPT !.stage_exc = out.stage_exc,
                              !.provider_called = r.provider_called,
                              !.adapter_called = r.adapter_called]

\* the caller that got an AnalysisPayload from analyze_filing hands it to
\* index_analysis (run_pipeline_once)
index_analysis ==
    /\ pc = "returned"
    /\ ret.op = "analyze"
    /\ ret.kind = "analysis"
    /\ IndexAnalysis(filings, ret.acc, "index", [BaseRet("index", ret.acc) EXCEPT !.kind = "receipt"])
    /\ call' = Call("index", ret.acc, "", "", filings[ret.acc].status, "", <<>>)
    /\ pc' = "returned"
    /\ UNCHANGED <<backend, attempts, an_out, graph_vars>>

\* ------------------------------------------------------------------
\* GraphRuntime.replay_filing
\* ------------------------------------------------------------------
\* mode arguments a caller can pass; "" stands for None / empty
ReplayModes == {"auto", "analysis", "index", "purge", ""}

\* (mode or "auto").strip().lower()
NormalizedMode(mode) == IF mode = "" THEN "auto" ELSE mode

\* the exception replay_filing raises before doing anything, or "none"
ReplayRejection(be, fl, a, mode) ==
    IF a = "" THEN "ValueError"
    ELSE IF NormalizedMode(mode) \notin {"auto", "analysis", "index"} THEN "ValueError"
    ELSE IF be = "sqlite" THEN "AttributeError"      \* StateManager has no get_filing
    ELSE IF ~has_accession(fl, a) THEN "LookupError"
    ELSE "none"

\* variant: auto always resolves to analysis
SelectedMode_never_index(fl, ck, a, mode) ==
    IF NormalizedMode(mode) = "auto" THEN "analysis"
    ELSE IF NormalizedMode(mode) = "index" /\ load_state(ck, "analysis", a) # "with_analysis"
    THEN "analysis"
    ELSE NormalizedMode(mode)

\* selected_mode after lines 353-365: auto resolves on the status read by
\* get_filing, index falls back to analysis without a checkpointed analysis
SelectedMode(fl, ck, a, mode) ==
    LET first == IF NormalizedMode(mode) = "auto"
                 THEN (IF fl[a].status = "ANALYZED_NOT_INDEXED" THEN "index" ELSE "analysis")
                 ELSE NormalizedMode(mode)
    IN IF first = "index" /\ load_state(ck, "analysis", a) # "with_analysis"
       THEN "analysis" ELSE first

ReplayCall(a, mode) ==
    Call("replay", a, NormalizedMode(mode), SelectedMode(filings, ckpt, a, mode),
         filings[a].status, load_state(ckpt, "analysis", a), <<>>)

\* a replay that passes validation and finds the filing: the attempt is
\* recorded before anything else runs
ReplayAttempt(a, mode, selected) ==
    /\ ReplayRejection(backend, filings, a, mode) = "none"
    /\ SelectedMode(filings, ckpt, a, mode) = selected
    /\ filings[a].replay_count < MaxReplay
    /\ attempts' = [attempts EXCEPT ![a] = @ + 1]
    /\ call' = ReplayCall(a, mode)

replay_filing_rejects ==
    /\ pc = "idle"
    /\ \E a \in Accessions \cup {""}, mode \in ReplayModes :
         /\ ReplayRejection(backend, filings, a, mode) # "none"
         /\ call' = Call("replay", a, mode, "", "", "", <<>>)
         /\ ret' = Raised("replay", a, ReplayRejection(backend, filings, a, mode))
    /\ pc' = "returned"
    /\ UNCHANGED <<stores, an_out, graph_vars>>

\* index mode: the checkpointed analysis is indexed again
replay_filing_index ==
    /\ pc = "idle"
    /\ \E a \in Accessions, mode \in ReplayModes :
         /\ ReplayAttempt(a, mode, "index")
         /\ IndexAnalysis(mark_replay_attempt(filings, a), a, "replay",
                          [BaseRet("replay", a) EXCEPT !.kind = "ok", !.mode = "index",
                                                       !.analyzed = TRUE])
    /\ pc' = "returned"
    /\ UNCHANGED <<backend, an_out, graph_vars>>

\* analysis mode, the provider gives no text: get_document_text raises, or
\* returns an empty text and replay_filing raises RuntimeError
replay_filing_fetch_fails ==
    /\ pc = "idle"
    /\ \E a \in Accessions, mode \in ReplayModes, exc \in {"provider_error", "RuntimeError"} :
         /\ ReplayAttempt(a, mode, "analysis")
         /\ filings' = mark_replay_attempt(filings, a)
         /\ ret' = [Raised("replay", a, exc) EXCEPT !.provider_called = TRUE]
    /\ pc' = "returned"
    /\ UNCHANGED <<backend, ckpt, an_out, graph_vars>>

\* analysis mode, the text is fetched again and analyze_filing runs
replay_filing_analysis ==
    /\ pc = "idle"
    /\ \E a \in Accessions, mode \in ReplayModes :
         /\ ReplayAttempt(a, mode, "analysis")
         /\ AnalyzeFiling(mark_replay_attempt(filings, a), a)
    /\ pc' = "analyze_done"
    /\ UNCHANGED <<backend, ret, graph_vars>>

\* variant: analyzed is set before the analysis is inspected
ReplayRet_claims_analyzed(kind, analyzed) ==
    [BaseRet("replay", call.acc) EXCEPT
        !.kind = kind, !.mode = call.selected, !.analyzed = TRUE,
        !.provider_called = TRUE, !.adapter_called = TRUE]

ReplayRet(kind, analyzed) ==
    [BaseRet("replay", call.acc) EXCEPT
        !.kind = kind, !.mode = call.selected, !.analyzed = analyzed,
        !.provider_called = TRUE, !.adapter_called = TRUE]

\* lines 409-417: analyze_filing raised, or returned nothing
replay_filing_dead_letter ==
    /\ pc = "analyze_done"
    /\ call.op = "replay"
    /\ an_out.kind # "analysis"
    /\ ret' = IF an_out.kind = "raised"
              THEN [ReplayRet("raised", FALSE) EXCEPT !.exc = an_out.exc, !.mode = ""]
              ELSE ReplayRet("dead_letter", FALSE)
    /\ pc' = "returned"
    /\ UNCHANGED <<stores, call, an_out, graph_vars>>

\* lines 418-433: the new analysis is indexed
replay_filing_after_analysis ==
    /\ pc = "analyze_done"
    /\ call.op = "replay"
    /\ an_out.kind = "analysis"
    /\ IndexAnalysis(filings, call.acc, "replay", ReplayRet("ok", TRUE))
    /\ pc' = "returned"
    /\ UNCHANGED <<backend, attempts, call, an_out, graph_vars>>

\* ------------------------------------------------------------------
\* GraphRuntime.run_ingestion_cycle (ingestion graph)
\* ------------------------------------------------------------------
\* variant: poll_edgar queues every record, known or not
PollQueue_no_dedupe(fl, recs) == recs

\* IngestionNodes.poll_edgar: records whose accession is not in the store
PollQueue(fl, recs) == SelectSeq(recs, LAMBDA a : ~has_accession(fl, a))

\* the fetch_full_text .. emit_payload loop over the first n queue entries:
\* each is marked INGESTED and emitted
RECURSIVE MarkAllIngested(_, _, _, _)
MarkAllIngested(be, fl, queue, n) ==
    IF n = 0 THEN fl
    ELSE mark_ingested(be, MarkAllIngested(be, fl, queue, n - 1), queue[n]).filings

\* the provider's answer is recs; done < Len(queue) means the provider raised
\* while the filing after the first `done` ones was being fetched
run_ingestion_cycle ==
    /\ pc = "idle"
    /\ \E recs \in RecordLists :
         LET queue == PollQueue(filings, recs)
         IN \E done \in 0..Len(queue) :
              /\ filings' = MarkAllIngested(backend, filings, queue, done)
              /\ call' = Call("ingest", "", "", "", "", "", queue)
              /\ IF done = Len(queue)
                 THEN /\ ckpt' = save_state(ckpt, "ingestion", "default", "saved")
                      /\ ret' = [BaseRet("ingest", "") EXCEPT
                                    !.kind = "payloads", !.payloads = queue,
                                    !.provider_called = TRUE]
                 ELSE /\ ckpt' = ckpt
                      /\ ret' = [Raised("ingest", "", "provider_error") EXCEPT
                                    !.payloads = SubSeq(queue, 1, done),
                                    !.provider_called = TRUE]
    /\ pc' = "returned"
    /\ UNCHANGED <<backend, attempts, an_out, graph_vars>>

\* ------------------------------------------------------------------
\* services.backfill.run_backfill
\* ------------------------------------------------------------------
\* the first loop, from record i on: skip known accessions unless
\* include_existing, fetch the text (record failAt's fetch raises), mark
\* INGESTED, collect the payload
RECURSIVE BackfillIngest(_, _, _, _, _, _, _)
BackfillIngest(be, fl, recs, i, includeExisting, failAt, payloads) ==
    IF i > Len(recs) THEN [filings |-> fl, payloads |-> payloads, raised |-> "none"]
    ELSE IF ~includeExisting /\ has_accession(fl, recs[i])
    THEN BackfillIngest(be, fl, recs, i + 1, includeExisting, failAt, payloads)
    ELSE IF failAt = i
    THEN [filings |-> fl, payloads |-> payloads, raised |-> "provider_error"]
    ELSE LET marked == mark_ingested_with_market(be, fl, recs[i])
         IN IF marked.raised # "none"
            THEN [filings |-> marked.filings, payloads |-> payloads, raised |-> marked.raised]
            ELSE BackfillIngest(be, marked.filings, recs, i + 1, includeExisting, failAt,
                                Append(payloads, recs[i]))

\* lines 39-112: the records are fetched and marked; the payloads wait for
\* the second loop
run_backfill ==
    /\ pc = "idle"
    /\ \E recs \in RecordLists, includeExisting \in BOOLEAN, failAt \in 0..MaxRecords :
         LET out == BackfillIngest(backend, filings, recs, 1, includeExisting, failAt, <<>>)
         IN /\ filings' = out.filings
            /\ call' = Call("backfill", "", "", "", "", "", out.payloads)
            /\ IF out.raised = "none"
               THEN /\ pc' = "backfill_loop"
                    /\ ret' = ret
               ELSE /\ pc' = "returned"
                    /\ ret' = [Raised("backfill", "", out.raised) EXCEPT
                                  !.provider_called = TRUE]
    /\ UNCHANGED <<backend, ckpt, attempts, an_out, graph_vars>>

\* line 120: analyze_filing(payload) for the next payload
run_backfill_analyze ==
    /\ pc = "backfill_loop"
    /\ call.queue # <<>>
    /\ AnalyzeFiling(filings, Head(call.queue))
    /\ call' = [call EXCEPT !.acc = Head(call.queue), !.pre_status = filings[Head(call.queue)].status]
    /\ pc' = "analyze_done"
    /\ UNCHANGED <<backend, attempts, ret, graph_vars>>

\* lines 121-125: no analysis, or analyze_filing raised
run_backfill_not_analyzed ==
    /\ pc = "analyze_done"
    /\ call.op = "backfill"
    /\ an_out.kind # "analysis"
    /\ IF an_out.kind = "raised"
       THEN /\ ret' = [Raised("backfill", call.acc, an_out.exc) EXCEPT
                          !.provider_called = TRUE, !.adapter_called = TRUE]
            /\ pc' = "returned"
            /\ call' = call
       ELSE /\ ret' = ret
            /\ pc' = "backfill_loop"
            /\ call' = [call EXCEPT !.queue = Tail(@)]
    /\ UNCHANGED <<stores, an_out, graph_vars>>

\* line 123: index_analysis(analysis); an exception ends run_backfill
run_backfill_after_analysis ==
    /\ pc = "analyze_done"
    /\ call.op = "backfill"
    /\ an_out.kind = "analysis"
    /\ \E fault \in IndexFaults :
         LET out == index_analysis_outcome(backend, filings, ckpt, call.acc, fault)
         IN /\ filings' = out.filings
            /\ ckpt' = out.ckpt
             /\ IF out.exc = "none"
               THEN /\ ret' = ret
                    /\ pc' = "backfill_loop"
                    /\ call' = [call EXCEPT !.queue = Tail(@)]
               ELSE /\ ret' = [Raised("backfill", call.acc, out.exc) EXCEPT
                                  !.stage_exc = out.stage_exc,
                                  !.provider_called = TRUE, !.adapter_called = TRUE]
                    /\ pc' = "returned"
                    /\ call' = call
    /\ UNCHANGED <<backend, attempts, an_out, graph_vars>>

\* lines 127-141
run_backfill_returns ==
    /\ pc = "backfill_loop"
    /\ call.queue = <<>>
    /\ ret' = [BaseRet("backfill", "") EXCEPT !.kind = "result", !.provider_called = TRUE]
    /\ pc' = "returned"
    /\ UNCHANGED <<stores, call, an_out, graph_vars>>

\* ------------------------------------------------------------------
\* The orchestrator
\* ------------------------------------------------------------------
Next ==
    \/ run_ingestion_cycle
    \/ run_backfill
    \/ run_backfill_analyze
    \/ run_backfill_not_analyzed
    \/ run_backfill_after_analysis
    \/ run_backfill_returns
    \/ analyze_filing
    \/ analyze_filing_return
    \/ index_analysis
    \/ replay_filing_rejects
    \/ replay_filing_index
    \/ replay_filing_fetch_fails
    \/ replay_filing_analysis
    \/ replay_filing_dead_letter
    \/ replay_filing_after_analysis
    \/ caller_receives

Spec == Init /\ [][Next]_vars

\* ------------------------------------------------------------------
\* Properties of the analysis stage (SpecAnalysis)
\* ------------------------------------------------------------------
\* C1 as stated: one run of the analysis stage invokes the model adapter at
\* most twice, counting every call made on the adapter.
C1_AdapterInvokedAtMostTwice == json_calls + text_calls <= 2

\* C1 amended: one run makes at most two extraction calls (generate_json:
\* the initial one and at most one reflection), and each validation makes at
\* most one revenue probe (generate_text), so at most four adapter calls.
C1_ExtractionAtMostTwice ==
    /\ json_calls <= 2
    /\ text_calls <= json_calls
    /\ json_calls = 2 => state.reflection_attempted \/ pc = "raised"

\* a finished run with a reflection in which both validations asked the adapter
C1_ReflectedRun ==
    /\ pc = "END"
    /\ state.reflection_attempted
    /\ json_calls = 2
    /\ text_calls = 2

EmitRun == <<"build_prompt", "call_gemini_extract", "validate_json", "emit_analysis_payload">>

ReflectEmitRun ==
    <<"build_prompt", "call_gemini_extract", "validate_json", "reflection_retry_once",
      "validate_json", "emit_analysis_payload">>

ReflectDeadLetterRun ==
    <<"build_prompt", "call_gemini_extract", "validate_json", "reflection_retry_once",
      "validate_json", "dead_letter">>

Occurrences(seq, x) == Cardinality({i \in 1..Len(seq) : seq[i] = x})

\* the node Validate routes to, read off the state it produced (pc is
\* "raised" when the node routed to has raised since)
RoutedAsSpecified ==
    (/\ state.trace # <<>>
     /\ state.trace[Len(state.trace)] = "validate_json"
     /\ pc # "raised") =>
        /\ state.is_valid => pc = "emit_analysis_payload"
        /\ (~state.is_valid /\ ~state.reflection_attempted) => pc = "reflection_retry_once"
        /\ (~state.is_valid /\ state.reflection_attempted) => pc = "dead_letter"

DeadLetterAfterOneReflection ==
    (pc = "dead_letter" \/ Occurrences(state.trace, "dead_letter") > 0) =>
        Occurrences(state.trace, "reflection_retry_once") = 1

StatusOf(a) == filings[a].status

\* an analyze_filing call has just finished (called directly, by run_backfill
\* or by replay_filing)
AnalyzeFinished == pc = "analyze_done"

\* C3 as stated: each analyze_filing call performs exactly one status write:
\* ANALYZED iff it returns an AnalysisPayload, DEAD_LETTER with reason and last
\* error iff it returns nothing.
C3_ExactlyOneStatusWrite ==
    AnalyzeFinished =>
        /\ an_out.writes = 1
        /\ an_out.kind \in {"analysis", "none"}
        /\ an_out.kind = "analysis" <=> StatusOf(call.acc) = "ANALYZED"
        /\ an_out.kind = "none" <=>
              /\ StatusOf(call.acc) = "DEAD_LETTER"
              /\ filings[call.acc].dead_letter_reason # ""
              /\ filings[call.acc].last_error # ""

\* C4 as stated: when the extraction adapter raises, analyze_filing returns
\* nothing instead of raising and the status is DEAD_LETTER with the
\* exception-specific reason.
C4_AdapterFailureContained ==
    (AnalyzeFinished /\ an_out.adapter_raised) =>
        /\ an_out.kind = "none"
        /\ StatusOf(call.acc) = "DEAD_LETTER"
        /\ filings[call.acc].dead_letter_reason = "analysis_graph_exception"

\* C5: when a step of the knowledge stage raises during index_analysis, the
\* caller gets that same exception and the status is already
\* ANALYZED_NOT_INDEXED when it does.
C5_IndexFailureRecordedAndReraised ==
    (pc = "returned" /\ ret.stage_exc # "none") =>
        /\ ret.kind = "raised"
        /\ ret.exc = ret.stage_exc
        /\ StatusOf(ret.acc) = "ANALYZED_NOT_INDEXED"

\* index_analysis called after an analysis, the bm25 update raised
C5_IndexRaised ==
    /\ pc = "returned"
    /\ ret.op = "index"
    /\ ret.kind = "raised"
    /\ ret.stage_exc = "update_bm25"
    /\ StatusOf(ret.acc) = "ANALYZED_NOT_INDEXED"

\* the edges C6 names; those out of DEAD_LETTER need a replay
ClaimedEdge(a, from, to) ==
    \/ from = "NONE" /\ to = "INGESTED"
    \/ from = "INGESTED" /\ to \in {"ANALYZED", "DEAD_LETTER"}
    \/ from = "ANALYZED" /\ to = "ANALYZED_NOT_INDEXED" /\ ret'.stage_exc # "none"
    \/ /\ from = "DEAD_LETTER"
       /\ to \in {"ANALYZED", "ANALYZED_NOT_INDEXED"}
       /\ call'.op = "replay"

AutoReplayOfDeadLetter ==
    /\ pc = "returned"
    /\ ret.op = "replay"
    /\ call.mode = "auto"
    /\ call.pre_status = "DEAD_LETTER"

AutoReplay ==
    /\ pc \in {"analyze_done", "returned"}
    /\ call.op = "replay"
    /\ call.mode = "auto"
    /\ call.selected # ""

C10_DeadLetterHasReason ==
    \A a \in Accessions :
        StatusOf(a) = "DEAD_LETTER" => filings[a].dead_letter_reason # ""

\* a filing dead-lettered by validation
C10_DeadLetteredFiling ==
    \E a \in Accessions :
        /\ StatusOf(a) = "DEAD_LETTER"
        /\ filings[a].dead_letter_reason = "validation_failed_after_reflection"

\* ------------------------------------------------------------------
\* Ingestion stage graph, node by node (IngestionNodes,
\* GraphRuntime._build_ingestion_graph)
\* ------------------------------------------------------------------
\* a text is the sequence of its pieces: "a" and "b" are words, "nn" is a
\* blank line ("\n\n") and "LONG" a passage of more than 1000 characters
EmptyText == <<>>

\* what get_filing_text can return (None and "" are both the empty text)
FilingTexts == {EmptyText, <<"a">>, <<"a", "a">>, <<"LONG">>}

\* what find_exhibit_991_text can return: nothing (None or ""), or an
\* exhibit that may repeat words of the filing's text
ExhibitTexts == {EmptyText, <<"a">>, <<"b">>, <<"a", "nn", "a">>}

\* current_filing = {}
NoFiling == [accession_number |-> "", raw_text |-> EmptyText, exhibit_text |-> EmptyText]

\* the payload emitted last: its raw text, and the primary and exhibit text
\* it was merged from
NoEmitted == [raw_text |-> EmptyText, primary_text |-> EmptyText,
              exhibit_text |-> EmptyText, accession_number |-> ""]

\* initial_state = {"trace": [], "errors": []}; polled and known_at_poll
\* remember the provider's answer and the accessions the store held when
\* poll_edgar ran
IngestionInitialState ==
    [filings_queue |-> <<>>, filing_payloads |-> <<>>, current_filing |-> NoFiling,
     raw_text |-> EmptyText, polled |-> <<>>, known_at_poll |-> {},
     primary_text |-> EmptyText, emitted |-> NoEmitted]

\* variant: poll_edgar builds the queue newest first
poll_edgar_newest_first(st, fl, recs) ==
    LET queue == PollQueue(fl, recs)
    IN [st EXCEPT !.filings_queue = [i \in 1..Len(queue) |-> queue[Len(queue) + 1 - i]],
                  !.filing_payloads = <<>>,
                  !.polled = recs,
                  !.known_at_poll = {a \in Accessions : has_accession(fl, a)}]

poll_edgar(st, fl, recs) ==
    [st EXCEPT !.filings_queue = PollQueue(fl, recs),
               !.filing_payloads = <<>>,
               !.polled = recs,
               !.known_at_poll = {a \in Accessions : has_accession(fl, a)}]

fetch_full_text(st, text) ==
    IF st.filings_queue = <<>>
    THEN [st EXCEPT !.current_filing = NoFiling, !.raw_text = EmptyText]
    ELSE [st EXCEPT !.current_filing = [accession_number |-> Head(st.filings_queue),
                                        raw_text |-> text, exhibit_text |-> EmptyText],
                    !.raw_text = text,
                    !.primary_text = text]

\* len(raw_text or "") <= 1000
AtMost1000(text) == \A i \in 1..Len(text) : text[i] # "LONG"

route_exhibit_logic(st) ==
    IF st.current_filing = NoFiling THEN "no_payload"
    ELSE IF AtMost1000(st.raw_text) THEN "fetch_exhibits"
    ELSE "emit_payload"

fetch_exhibits(st, exhibit) ==
    IF st.current_filing = NoFiling THEN st
    ELSE [st EXCEPT !.current_filing.exhibit_text = exhibit]

\* part in text: part is a substring of text
TextContains(text, part) ==
    \E i \in 0..(Len(text) - Len(part)) : SubSeq(text, i + 1, i + Len(part)) = part

\* variant: the exhibit is appended without the substring test
merge_text_always_appends(st) ==
    LET raw == st.current_filing.raw_text
        exhibit == st.current_filing.exhibit_text
        merged == IF exhibit # EmptyText THEN raw \o <<"nn">> \o exhibit ELSE raw
    IN [st EXCEPT !.current_filing.raw_text = merged, !.raw_text = merged]

\* merged = "%s\n\n%s" % (raw_text, exhibit_text) if the exhibit is not
\* empty and not in raw_text
merge_text(st) ==
    LET raw == st.current_filing.raw_text
        exhibit == st.current_filing.exhibit_text
        merged == IF exhibit # EmptyText /\ ~TextContains(raw, exhibit)
                  THEN raw \o <<"nn">> \o exhibit ELSE raw
    IN [st EXCEPT !.current_filing.raw_text = merged, !.raw_text = merged]

\* variant: the emitted filing stays at the head of the queue
emit_filing_payload_keeps_queue(st) ==
    IF st.current_filing = NoFiling THEN st
    ELSE [st EXCEPT !.filing_payloads = Append(@, st.current_filing.accession_number),
                    !.current_filing = NoFiling,
                    !.emitted = [raw_text |-> st.current_filing.raw_text,
                                 primary_text |-> st.primary_text,
                                 exhibit_text |-> st.current_filing.exhibit_text,
                                 accession_number |-> st.current_filing.accession_number]]

\* the state update of emit_filing_payload; its mark_ingested is in the step
emit_filing_payload(st) ==
    IF st.current_filing = NoFiling THEN st
    ELSE [st EXCEPT !.filing_payloads = Append(@, st.current_filing.accession_number),
                    !.filings_queue = IF @ = <<>> THEN @ ELSE Tail(@),
                    !.current_filing = NoFiling,
                    !.emitted = [raw_text |-> st.current_filing.raw_text,
                                 primary_text |-> st.primary_text,
                                 exhibit_text |-> st.current_filing.exhibit_text,
                                 accession_number |-> st.current_filing.accession_number]]

route_continue_or_end(st) ==
    IF st.filings_queue # <<>> THEN "continue" ELSE "end"

\* a step of the ingestion graph: position, state dict and store
IngestionGoTo(node, st, fl) ==
    /\ pc' = node
    /\ state' = st
    /\ filings' = fl
    /\ UNCHANGED <<backend, ckpt, attempts, call, an_out, ret, json_calls, text_calls>>

\* a provider call raised: ingestion_graph.invoke and run_ingestion_cycle raise
IngestionRaises ==
    /\ pc' = "returned"
    /\ ret' = [Raised("ingest", "", "provider_error") EXCEPT
                  !.payloads = state.filing_payloads, !.provider_called = TRUE]
    /\ UNCHANGED <<stores, call, an_out, graph_vars>>

step_poll_edgar ==
    /\ pc = "poll_edgar"
    /\ \/ \E recs \in RecordLists :
            IngestionGoTo("dedupe_check", poll_edgar(state, filings, recs), filings)
       \/ IngestionRaises

\* dedupe_check adds to the trace only
step_dedupe_check ==
    /\ pc = "dedupe_check"
    /\ IngestionGoTo("fetch_full_text", state, filings)

step_fetch_full_text ==
    /\ pc = "fetch_full_text"
    /\ \/ \E text \in FilingTexts :
            LET st == fetch_full_text(state, text)
                route == route_exhibit_logic(st)
            IN IngestionGoTo(IF route = "no_payload" THEN "END" ELSE route, st, filings)
       \/ state.filings_queue # <<>> /\ IngestionRaises

step_fetch_exhibits ==
    /\ pc = "fetch_exhibits"
    /\ \/ \E exhibit \in ExhibitTexts :
            IngestionGoTo("merge_text", fetch_exhibits(state, exhibit), filings)
       \/ IngestionRaises

step_merge_text ==
    /\ pc = "merge_text"
    /\ IngestionGoTo("emit_payload", merge_text(state), filings)

step_emit_filing_payload ==
    /\ pc = "emit_payload"
    /\ LET st == emit_filing_payload(state)
           fl == IF state.current_filing = NoFiling THEN filings
                 ELSE mark_ingested(backend, filings,
                                    state.current_filing.accession_number).filings
       IN IngestionGoTo(IF route_continue_or_end(st) = "continue"
                        THEN "fetch_full_text" ELSE "END", st, fl)

\* run_ingestion_cycle lines 208-227: the checkpoint and the returned payloads
ingestion_cycle_returns ==
    /\ pc = "END"
    /\ ckpt' = save_state(ckpt, "ingestion", "default", "saved")
    /\ ret' = [BaseRet("ingest", "") EXCEPT
                  !.kind = "payloads", !.payloads = state.filing_payloads,
                  !.provider_called = TRUE]
    /\ pc' = "returned"
    /\ UNCHANGED <<backend, filings, attempts, call, an_out, graph_vars>>

\* the caller starts the next cycle
next_ingestion_cycle ==
    /\ pc = "returned"
    /\ pc' = "poll_edgar"
    /\ state' = IngestionInitialState
    /\ ret' = NoRet
    /\ UNCHANGED <<stores, call, an_out, json_calls, text_calls>>

InitIngestion ==
    /\ backend \in Backends
    /\ filings = [a \in Accessions |-> NoRow]
    /\ ckpt = [k \in CkptKeys |-> "none"]
    /\ attempts = [a \in Accessions |-> 0]
    /\ call = Call("ingest", "", "", "", "", "", <<>>)
    /\ pc = "poll_edgar"
    /\ an_out = NoAnOut
    /\ ret = NoRet
    /\ state = IngestionInitialState
    /\ json_calls = 0
    /\ text_calls = 0

NextIngestion ==
    \/ step_poll_edgar
    \/ step_dedupe_check
    \/ step_fetch_full_text
    \/ step_fetch_exhibits
    \/ step_merge_text
    \/ step_emit_filing_payload
    \/ ingestion_cycle_returns
    \/ next_ingestion_cycle

SpecIngestion == InitIngestion /\ [][NextIngestion]_vars

\* ------------------------------------------------------------------
\* Properties of the ingestion stage (SpecIngestion)
\* ------------------------------------------------------------------
\* an ingestion cycle has returned its payload list
CycleReturned == pc = "returned" /\ ret.op = "ingest" /\ ret.kind = "payloads"

\* positions of the provider's records whose accession the store held at poll time
KnownPositions == {i \in 1..Len(state.polled) : state.polled[i] \in state.known_at_poll}

\* C11: the payloads one ingestion cycle returns are the provider's records
\* without those whose accession was in the state store at poll time, in
\* provider order: N records of which M were known give N - M payloads.
C11_PayloadsAreUnknownRecordsInOrder ==
    CycleReturned =>
        /\ ret.payloads = SelectSeq(state.polled, LAMBDA a : a \notin state.known_at_poll)
        /\ Len(ret.payloads) = Len(state.polled) - Cardinality(KnownPositions)

\* two records polled, the first already known: one payload, the second
C11_OneOfTwoSkipped ==
    /\ CycleReturned
    /\ Len(state.polled) = 2
    /\ KnownPositions = {1}
    /\ ret.payloads = <<state.polled[2]>>

\* C12 as stated: one ingestion cycle never emits two payloads with the same
\* accession id.
C12_NoDuplicatePayloads ==
    \A i, j \in 1..Len(state.filing_payloads) :
        i # j => state.filing_payloads[i] # state.filing_payloads[j]

\* ------------------------------------------------------------------
\* Batches (Spec)
\* ------------------------------------------------------------------
\* C13 as stated: in a batch, the failure of one filing (here: in
\* run_backfill, analyze_filing or index_analysis raising for the payload at
\* the head of the queue) does not keep the remaining payloads from being
\* processed.
C13_FailureDoesNotAbortBatch ==
    (pc = "returned" /\ call.op = "backfill" /\ ret.kind = "raised" /\ ret.acc # "") =>
        Tail(call.queue) = <<>>

\* ------------------------------------------------------------------
\* Lexical index of HybridRAGEngine: one indexing thread, one searching
\* thread (SpecBm25).  The engine object and both threads' locals are the
\* fields of `state`; the other variables stay as constructed.
\* ------------------------------------------------------------------
ChunkIds == {"c1", "c2"}

rest == <<backend, filings, ckpt, attempts, call, pc, an_out, ret, json_calls, text_calls>>

\* a component specification starts with the orchestrator idle
ComponentInit(st) ==
    /\ backend = "sqlite"
    /\ filings = [a \in Accessions |-> NoRow]
    /\ ckpt = [k \in CkptKeys |-> "none"]
    /\ attempts = [a \in Accessions |-> 0]
    /\ call = NoCall
    /\ pc = "idle"
    /\ an_out = NoAnOut
    /\ ret = NoRet
    /\ state = st
    /\ json_calls = 0
    /\ text_calls = 0

\* BM25Okapi(docs), or None: a document is named by the chunk whose text it
\* tokenizes
NoBm25 == [built |-> FALSE, docs |-> <<>>]
BM25Okapi(docs) == [built |-> TRUE, docs |-> docs]

\* HybridRAGEngine.__init__ on an empty database; w_* is the indexing
\* thread, s_* the searching thread
EngineInitialState ==
    [rows |-> <<>>, _bm25_ids |-> <<>>, _bm25_docs |-> <<>>, _bm25 |-> NoBm25,
     w_pc |-> "idle", w_rows |-> <<>>,
     s_pc |-> "idle", s_scores |-> <<>>, s_idx |-> 1, s_out |-> <<>>]

\* INSERT OR REPLACE INTO chunks: a row with the same id is deleted and the
\* new row gets the next rowid, so it is last in a table scan
InsertOrReplace(rows, c) == SelectSeq(rows, LAMBDA x : x # c) \o <<c>>

\* add_documents, lines 54-62: the chunk is committed, then the index is rebuilt
add_documents ==
    /\ state.w_pc = "idle"
    /\ \E c \in ChunkIds :
        state' = [state EXCEPT !.rows = InsertOrReplace(@, c), !.w_pc = "select"]
    /\ UNCHANGED rest

\* KnowledgeNodes.update_bm25 calls _load_bm25_index
update_bm25 ==
    /\ state.w_pc = "idle"
    /\ state' = [state EXCEPT !.w_pc = "select"]
    /\ UNCHANGED rest

\* _load_bm25_index line 66-67: rows = SELECT id, text FROM chunks
load_select_rows ==
    /\ state.w_pc = "select"
    /\ state' = [state EXCEPT !.w_rows = state.rows, !.w_pc = "ids"]
    /\ UNCHANGED rest

\* line 68: self._bm25_ids = [...]
load_assign_ids ==
    /\ state.w_pc = "ids"
    /\ state' = [state EXCEPT !._bm25_ids = state.w_rows, !.w_pc = "docs"]
    /\ UNCHANGED rest

\* line 69: self._bm25_docs = [...]
load_assign_docs ==
    /\ state.w_pc = "docs"
    /\ state' = [state EXCEPT !._bm25_docs = state.w_rows, !.w_pc = "bm25"]
    /\ UNCHANGED rest

\* lines 70-73: self._bm25 = BM25Okapi(self._bm25_docs) or None
load_assign_bm25 ==
    /\ state.w_pc = "bm25"
    /\ state' = [state EXCEPT
                    !._bm25 = IF state._bm25_docs # <<>>
                              THEN BM25Okapi(state._bm25_docs) ELSE NoBm25,
                    !.w_pc = "idle"]
    /\ UNCHANGED rest

\* keyword_search line 117 (no ticker): with no scorer the fallback scores
\* the rows of one SELECT, each with its own id
keyword_search_begin ==
    /\ state.s_pc = "idle"
    /\ state' = IF state._bm25.built
                THEN [state EXCEPT !.s_pc = "score", !.s_out = <<>>]
                ELSE [state EXCEPT
                        !.s_pc = "done",
                        !.s_out = [i \in 1..Len(state.rows) |->
                                     [doc |-> state.rows[i], id |-> state.rows[i]]]]
    /\ UNCHANGED rest

\* lines 119-124: scores = self._bm25.get_scores(q_tokens), one score per
\* document of the scorer; the query matches every document and top_k
\* covers them, the ranking is taken in index order
keyword_search_score ==
    /\ state.s_pc = "score"
    /\ state' = IF state._bm25.built
                THEN [state EXCEPT !.s_scores = state._bm25.docs, !.s_idx = 1,
                                   !.s_pc = "lookup"]
                ELSE [state EXCEPT !.s_pc = "raised"]
    /\ UNCHANGED rest

\* lines 126-130, one iteration: get_chunk(self._bm25_ids[idx]) receives the
\* score of document idx
keyword_search_lookup ==
    /\ state.s_pc = "lookup"
    /\ state' =
        IF state.s_idx > Len(state.s_scores)
        THEN [state EXCEPT !.s_pc = "done"]
        ELSE IF state.s_idx > Len(state._bm25_ids)
        THEN [state EXCEPT !.s_pc = "raised"]
        ELSE [state EXCEPT
                !.s_out = Append(@, [doc |-> state.s_scores[state.s_idx],
                                     id |-> state._bm25_ids[state.s_idx]]),
                !.s_idx = @ + 1]
    /\ UNCHANGED rest

\* line 131: the search returns (or its exception leaves it)
keyword_search_return ==
    /\ state.s_pc \in {"done", "raised"}
    /\ state' = [state EXCEPT !.s_pc = "idle", !.s_scores = <<>>, !.s_idx = 1,
                              !.s_out = <<>>]
    /\ UNCHANGED rest

InitBm25 == ComponentInit(EngineInitialState)

NextBm25 ==
    \/ add_documents
    \/ update_bm25
    \/ load_select_rows
    \/ load_assign_ids
    \/ load_assign_docs
    \/ load_assign_bm25
    \/ keyword_search_begin
    \/ keyword_search_score
    \/ keyword_search_lookup
    \/ keyword_search_return

SpecBm25 == InitBm25 /\ [][NextBm25]_vars

\* C14 as stated: every result of a keyword search carries the score of its
\* own document, i.e. the chunk-id list and the scorer it used belong to the
\* same index, and the search does not fail on a list that is too short.
C14_NoTornRead ==
    /\ state.s_pc # "raised"
    /\ \A i \in 1..Len(state.s_out) : state.s_out[i].id = state.s_out[i].doc

\* ------------------------------------------------------------------
\* Reciprocal rank fusion (SpecRRF): HybridRAGEngine.reciprocal_rank_fusion
\* and PostgresRAGEngine.reciprocal_rank_fusion applied to the same pair of
\* ranked lists.  A search result is named by its chunk id; a list holds a
\* chunk at most once, as semantic_search and keyword_search produce them.
\* ------------------------------------------------------------------
MaxResults == 3
MaxTopK == 3
RRF_K == 60
RrfIds == {"a", "b", "c"}

\* ranked lists of up to n results, no chunk twice
RECURSIVE RankedListsUpTo(_)
RankedListsUpTo(n) ==
    IF n = 0 THEN {<<>>}
    ELSE LET shorter == RankedListsUpTo(n - 1)
         IN shorter \cup {Append(s, c) : s \in {t \in shorter : Len(t) = n - 1},
                                         c \in RrfIds}

RankedLists ==
    {s \in RankedListsUpTo(MaxResults) : \A i, j \in 1..Len(s) : i # j => s[i] # s[j]}

\* scores are kept exactly, as multiples of 1/RrfScale: RrfScale is the
\* product of the denominators RRF_K + rank of all ranks
RECURSIVE DenominatorProduct(_)
DenominatorProduct(n) == IF n = 0 THEN 1 ELSE (RRF_K + n) * DenominatorProduct(n - 1)

RrfScale == DenominatorProduct(MaxResults)

\* variant: enumerate(results) without start=1
Reciprocal_rank_from_zero(rank) == RrfScale \div (RRF_K + rank - 1)

\* 1.0 / float(k + rank)
Reciprocal(rank) == RrfScale \div (RRF_K + rank)

\* one `for rank, result in enumerate(results, start=1)` loop over the dict
\* `scores`, whose keys keep their insertion order
RECURSIVE rrf_accumulate(_, _, _)
rrf_accumulate(acc, results, rank) ==
    IF rank > Len(results) THEN acc
    ELSE LET id == results[rank]
             seen == \E i \in 1..Len(acc.keys) : acc.keys[i] = id
         IN rrf_accumulate(
                [keys |-> IF seen THEN acc.keys ELSE Append(acc.keys, id),
                 scores |-> [acc.scores EXCEPT ![id] = @ + Reciprocal(rank)]],
                results, rank + 1)

\* variant: equal scores come out last inserted first
sorted_reverse_unstable(keys, scores) ==
    LET Position(p) ==
            1 + Cardinality({q \in 1..Len(keys) : scores[keys[q]] > scores[keys[p]]})
              + Cardinality({q \in 1..Len(keys) : q > p /\ scores[keys[q]] = scores[keys[p]]})
    IN [i \in 1..Len(keys) |-> keys[CHOOSE p \in 1..Len(keys) : Position(p) = i]]

\* sorted(keys, key=scores, reverse=True): descending and stable, so equal
\* scores keep the order of `keys`
sorted_reverse(keys, scores) ==
    LET Position(p) ==
            1 + Cardinality({q \in 1..Len(keys) : scores[keys[q]] > scores[keys[p]]})
              + Cardinality({q \in 1..Len(keys) : q < p /\ scores[keys[q]] = scores[keys[p]]})
    IN [i \in 1..Len(keys) |-> keys[CHOOSE p \in 1..Len(keys) : Position(p) = i]]

\* HybridRAGEngine.reciprocal_rank_fusion
reciprocal_rank_fusion(semantic_results, keyword_results, top_k) ==
    LET empty == [keys |-> <<>>, scores |-> [c \in RrfIds |-> 0]]
        acc == rrf_accumulate(rrf_accumulate(empty, semantic_results, 1), keyword_results, 1)
        sorted == sorted_reverse(acc.keys, acc.scores)
        ranked_ids == SubSeq(sorted, 1, IF top_k < Len(sorted) THEN top_k ELSE Len(sorted))
    IN [i \in 1..Len(ranked_ids) |->
            [chunk_id |-> ranked_ids[i], score |-> acc.scores[ranked_ids[i]]]]

\* PostgresRAGEngine.reciprocal_rank_fusion
pg_reciprocal_rank_fusion(semantic_results, keyword_results, top_k) ==
    LET empty == [keys |-> <<>>, scores |-> [c \in RrfIds |-> 0]]
        acc == rrf_accumulate(rrf_accumulate(empty, semantic_results, 1), keyword_results, 1)
        sorted == sorted_reverse(acc.keys, acc.scores)
        ranked_ids == SubSeq(sorted, 1, IF top_k < Len(sorted) THEN top_k ELSE Len(sorted))
    IN [i \in 1..Len(ranked_ids) |->
            [chunk_id |-> ranked_ids[i], score |-> acc.scores[ranked_ids[i]]]]

RrfInputs ==
    [semantic : RankedLists, keyword : RankedLists, top_k : 1..MaxTopK,
     fused : {<<>>}, pg_fused : {<<>>}, sqlite_done : {FALSE}, pg_done : {FALSE}]

fuse_sqlite ==
    /\ ~state.sqlite_done
    /\ state' = [state EXCEPT
                    !.fused = reciprocal_rank_fusion(state.semantic, state.keyword, state.top_k),
                    !.sqlite_done = TRUE]
    /\ UNCHANGED rest

fuse_pg ==
    /\ ~state.pg_done
    /\ state' = [state EXCEPT
                    !.pg_fused = pg_reciprocal_rank_fusion(state.semantic, state.keyword, state.top_k),
                    !.pg_done = TRUE]
    /\ UNCHANGED rest

InitRRF == \E st \in RrfInputs : ComponentInit(st)

NextRRF == fuse_sqlite \/ fuse_pg

SpecRRF == InitRRF /\ [][NextRRF]_vars

\* the fused score the specification gives a chunk id
RankIn(list, id) == CHOOSE i \in 1..Len(list) : list[i] = id
ContributionOf(list, id) ==
    IF \E i \in 1..Len(list) : list[i] = id
    THEN RrfScale \div (RRF_K + RankIn(list, id)) ELSE 0
ExpectedScore(id) == ContributionOf(state.semantic, id) + ContributionOf(state.keyword, id)

WellFused(fused) ==
    /\ Len(fused) <= state.top_k
    /\ \A i, j \in 1..Len(fused) : i # j => fused[i].chunk_id # fused[j].chunk_id
    /\ \A i \in 1..Len(fused) : fused[i].score = ExpectedScore(fused[i].chunk_id)
    /\ \A i \in 1..Len(fused) : i > 1 => fused[i - 1].score >= fused[i].score

\* C15: for any two ranked lists, the fusion of either engine returns each
\* chunk id at most once and at most top_k results, each with the score
\* sum of 1/(60+rank) over the lists holding it (rank from 1, an absent list
\* contributing 0), in non-increasing score order; the two engines agree.
C15_FusionScoresAndOrder ==
    /\ state.sqlite_done => WellFused(state.fused)
    /\ state.pg_done => WellFused(state.pg_fused)
    /\ (state.sqlite_done /\ state.pg_done) => state.fused = state.pg_fused

\* both engines have fused lists that share one id and differ in another,
\* and top_k has cut the result
C15_FusedAndCut ==
    /\ state.sqlite_done /\ state.pg_done
    /\ state.semantic = <<"a", "b">> /\ state.keyword = <<"c", "a">>
    /\ state.top_k = 2
    /\ Len(state.fused) = 2 /\ state.fused[1].chunk_id = "a"

\* place where an id is first encountered: semantic list before keyword list
FirstEncounter(id) == RankIn(state.semantic \o state.keyword, id)

\* C16: among fused results with equal score the one encountered first
\* (semantic list before keyword list) comes first, so the output order is a
\* function of the inputs; semantic=[a,b], keyword=[b,a] gives a as top-1.
C16_TiesInEncounterOrder ==
    state.sqlite_done =>
        /\ \A i, j \in 1..Len(state.fused) :
              (i < j /\ state.fused[i].score = state.fused[j].score) =>
                  FirstEncounter(state.fused[i].chunk_id) < FirstEncounter(state.fused[j].chunk_id)
        /\ (state.semantic = <<"a", "b">> /\ state.keyword = <<"b", "a">>) =>
              state.fused[1].chunk_id = "a"

\* the crafted tie: a and b have the same fused score and a is first
C16_TieResolved ==
    /\ state.sqlite_done
    /\ state.semantic = <<"a", "b">> /\ state.keyword = <<"b", "a">>
    /\ state.top_k >= 2
    /\ state.fused[1].score = state.fused[2].score
    /\ state.fused[1].chunk_id = "a"

\* ------------------------------------------------------------------
\* Knowledge stage (SpecIndex): index_analysis chunks an AnalysisPayload and
\* writes the chunks to the chunk store of the SQLite or the Postgres engine.
\* ------------------------------------------------------------------
MaxKpis == 1
MaxIndexRuns == 3

\* what a component that writes the filing table and the checkpoints leaves
\* alone
bus_rest == <<backend, attempts, call, pc, an_out, ret, json_calls, text_calls>>
KpiValues == {"k1", "k2"}

RECURSIVE KpiListsUpTo(_)
KpiListsUpTo(n) ==
    IF n = 0 THEN {<<>>}
    ELSE LET shorter == KpiListsUpTo(n - 1)
         IN shorter \cup {Append(s, k) : s \in {t \in shorter : Len(t) = n - 1},
                                         k \in KpiValues}

\* AnalysisPayload: accession number, kpis, summary highlights
AnalysisPayloads ==
    [accession_number : Accessions, kpis : KpiListsUpTo(MaxKpis),
     highlights : {<<>>, <<"h1">>}]

NoPayload == [accession_number |-> "", kpis |-> <<>>, highlights |-> <<>>]

\* KnowledgeNodes.chunk_kpi_and_summary: one chunk per kpi, id
\* "<accession>-kpi-<idx>" with idx from 0, then "<accession>-summary" if the
\* summary has highlights
chunk_kpi_and_summary(analysis) ==
    IF analysis = NoPayload THEN <<>> ELSE
    LET kpi_chunks ==
            [i \in 1..Len(analysis.kpis) |->
                [id |-> <<analysis.accession_number, "kpi", i - 1>>,
                 text |-> <<"KPI", i, analysis.kpis[i]>>,
                 metadata |-> [accession_number |-> analysis.accession_number,
                               kind |-> "kpi"]]]
    IN IF analysis.highlights # <<>>
       THEN Append(kpi_chunks,
                   [id |-> <<analysis.accession_number, "summary">>,
                    text |-> <<"Summary">> \o analysis.highlights,
                    metadata |-> [accession_number |-> analysis.accession_number,
                                  kind |-> "summary"]])
       ELSE kpi_chunks

\* variant: a chunk without a stable id is always inserted as a new row
insert_row_appends(engine, rows, chunk) == Append(rows, chunk)

\* one INSERT of add_documents: SQLite's INSERT OR REPLACE deletes the row
\* with the same id and adds the new one at the end, Postgres' ON CONFLICT
\* (id) DO UPDATE rewrites the row in place
insert_row(engine, rows, chunk) ==
    IF engine = "sqlite"
    THEN SelectSeq(rows, LAMBDA r : r.id # chunk.id) \o <<chunk>>
    ELSE IF \E i \in 1..Len(rows) : rows[i].id = chunk.id
         THEN [i \in 1..Len(rows) |-> IF rows[i].id = chunk.id THEN chunk ELSE rows[i]]
         ELSE Append(rows, chunk)

\* index_chroma: rag_engine.add_documents(chunks), skipped for no chunks
RECURSIVE index_chroma(_, _, _, _)
index_chroma(engine, rows, chunks, i) ==
    IF i > Len(chunks) THEN rows
    ELSE index_chroma(engine, insert_row(engine, rows, chunks[i]), chunks, i + 1)

IndexInitialState ==
    [engine : Backends, rows : {<<>>}, runs : {0},
     payload : {NoPayload}, chunk_ids : {<<>>}, chunk_count : {0},
     prev_payload : {NoPayload}, prev_chunk_ids : {<<>>}, rows_before : {<<>>},
     absent : {[ran |-> FALSE, chunks |-> <<>>, wrote |-> FALSE, raised |-> "none"]}]

\* persist_receipt reads analysis.accession_number: the exception it raises
\* for state["analysis"] = None, or "none"
persist_receipt(analysis, chunks) ==
    IF analysis = NoPayload THEN "AttributeError" ELSE "none"

\* the knowledge graph invoked on a state without an analysis (analysis =
\* None): chunk_kpi_and_summary, index_chroma, update_bm25, persist_receipt
knowledge_graph_without_analysis ==
    /\ ~state.absent.ran
    /\ LET chunks == chunk_kpi_and_summary(NoPayload)
           rows == index_chroma(state.engine, state.rows, chunks, 1)
       IN state' = [state EXCEPT
                      !.rows = rows,
                      !.absent = [ran |-> TRUE, chunks |-> chunks,
                                  wrote |-> rows # state.rows,
                                  raised |-> persist_receipt(NoPayload, chunks)]]
    /\ UNCHANGED rest

\* GraphRuntime.index_analysis(payload) without a fault: the knowledge graph
\* chunks, indexes and returns the receipt; the previous call is remembered
index_analysis_run ==
    /\ state.runs < MaxIndexRuns
    /\ \E analysis \in AnalysisPayloads :
        LET chunks == chunk_kpi_and_summary(analysis)
        IN state' = [state EXCEPT
                        !.rows = index_chroma(state.engine, state.rows, chunks, 1),
                        !.runs = @ + 1,
                        !.payload = analysis,
                        !.chunk_ids = [i \in 1..Len(chunks) |-> chunks[i].id],
                        !.chunk_count = Len(chunks),
                        !.prev_payload = state.payload,
                        !.prev_chunk_ids = state.chunk_ids,
                        !.rows_before = state.rows]
    /\ UNCHANGED rest

\* GraphRuntime.index_analysis(payload) with a fault in the knowledge stage:
\* a failing add_documents rolls its transaction back, a fault of a later
\* step finds the chunks already committed; the except branch marks the
\* filing ANALYZED_NOT_INDEXED and re-raises; no receipt is remembered
index_analysis_raises ==
    /\ state.runs < MaxIndexRuns
    /\ \E analysis \in AnalysisPayloads, fault \in IndexFaults \ {"none"} :
        LET chunks == chunk_kpi_and_summary(analysis)
            out == index_analysis_outcome(backend, filings, ckpt,
                                          analysis.accession_number, fault)
        IN /\ state' = [state EXCEPT
                          !.rows = IF fault = "add_documents" THEN @
                                   ELSE index_chroma(state.engine, @, chunks, 1),
                          !.runs = @ + 1,
                          !.payload = NoPayload, !.chunk_ids = <<>>,
                          !.chunk_count = 0,
                          !.prev_payload = NoPayload, !.prev_chunk_ids = <<>>,
                          !.rows_before = <<>>]
           /\ filings' = out.filings
           /\ ckpt' = out.ckpt
    /\ UNCHANGED bus_rest

InitIndex == \E st \in IndexInitialState : ComponentInit(st)

NextIndex == index_analysis_run \/ knowledge_graph_without_analysis

\* index_analysis calls that succeed or raise, with the filing table
\* (SpecIndexFaults)
NextIndexFaults == index_analysis_run \/ index_analysis_raises

SpecIndexFaults == InitIndex /\ [][NextIndexFaults]_vars

SpecIndex == InitIndex /\ [][NextIndex]_vars

RowSet(rows) == {rows[i] : i \in 1..Len(rows)}

\* the last two index runs succeeded and were given the same payload
IndexedTwice ==
    state.runs >= 2 /\ state.payload # NoPayload /\ state.payload = state.prev_payload

\* C17: indexing the same AnalysisPayload twice produces the same chunk ids
\* both times, and the second run leaves the chunk store with the same
\* chunks and the same chunk count as the first run left it, with no id
\* stored twice.
C17_IndexingIsIdempotent ==
    IndexedTwice =>
        /\ state.chunk_ids = state.prev_chunk_ids
        /\ RowSet(state.rows) = RowSet(state.rows_before)
        /\ Len(state.rows) = Len(state.rows_before)
        /\ \A i, j \in 1..Len(state.rows) : i # j => state.rows[i].id # state.rows[j].id

\* a payload with a kpi and a summary was indexed twice next to another
\* filing's chunks
C17_ReindexedNextToOthers ==
    /\ IndexedTwice
    /\ state.chunk_count = 2
    /\ Len(state.rows) > 2

\* ------------------------------------------------------------------
\* replay_filing: repeated failure and contract errors (Spec)
\* ------------------------------------------------------------------
\* replay_filing returns after its analyze_filing call gave no analysis
ReplayAnalysisFailedAgain ==
    /\ pc = "analyze_done" /\ call.op = "replay" /\ an_out.kind # "analysis"
    /\ pc' = "returned"

ContractViolation ==
    /\ call.op = "replay"
    /\ \/ call.acc = ""
       \/ NormalizedMode(call.mode) \notin {"auto", "analysis", "index"}
       \/ ~has_accession(filings, call.acc)

\* C19 as stated, for replay_filing: a call that breaks the contract raises
\* the error of its kind (ValueError for an empty accession or an unknown
\* mode, LookupError for an absent accession) and neither the provider nor
\* the adapter has been called.
C19_ContractErrorsAreDistinguishable ==
    (pc = "returned" /\ ContractViolation) =>
        /\ ret.kind = "raised"
        /\ ret.exc = IF call.acc = "" \/ NormalizedMode(call.mode) \notin {"auto", "analysis", "index"}
                     THEN "ValueError" ELSE "LookupError"
        /\ ~ret.provider_called /\ ~ret.adapter_called

\* ------------------------------------------------------------------
\* Event bus (SpecBus): the worker thread of EventBus dispatches
\* ANALYSIS_COMPLETED messages to KnowledgeAgent.handle_message, which calls
\* index_analysis.  `state` is the bus: its queue, the message being
\* dispatched ("" for none), the attempt counter of _dispatch_with_retry
\* and the number of handler calls made for the message.
\* ------------------------------------------------------------------
MaxMessages == 2
max_retries == 2

BusInitialState == [queue |-> <<>>, message |-> "", attempt |-> 0, calls |-> 0]


\* AnalystAgent.handle_message publishes the analysis of a filing
publish_analysis_completed ==
    /\ Len(state.queue) < MaxMessages
    /\ \E a \in Accessions : state' = [state EXCEPT !.queue = Append(@, a)]
    /\ UNCHANGED <<filings, ckpt, bus_rest>>

\* _worker_loop: the next message is taken off the queue
worker_get ==
    /\ state.message = ""
    /\ state.queue # <<>>
    /\ state' = [state EXCEPT !.message = Head(state.queue), !.queue = Tail(state.queue),
                              !.attempt = 0, !.calls = 0]
    /\ UNCHANGED <<filings, ckpt, bus_rest>>

\* _dispatch_with_retry, one pass of the loop: handler(message) is
\* KnowledgeAgent.handle_message, i.e. index_analysis(payload); an
\* exception is logged and counted, a return ends the dispatch
dispatch_attempt ==
    /\ state.message # ""
    /\ state.attempt <= max_retries
    /\ \E fault \in IndexFaults :
        LET out == index_analysis_outcome(backend, filings, ckpt, state.message, fault)
        IN /\ filings' = out.filings
           /\ ckpt' = out.ckpt
           /\ state' = IF out.exc = "none"
                       THEN [state EXCEPT !.message = "", !.calls = @ + 1]
                       ELSE [state EXCEPT !.attempt = @ + 1, !.calls = @ + 1]
    /\ UNCHANGED bus_rest

\* the loop ends with the attempts used up; the message is dropped
dispatch_exhausted ==
    /\ state.message # ""
    /\ state.attempt > max_retries
    /\ state' = [state EXCEPT !.message = ""]
    /\ UNCHANGED <<filings, ckpt, bus_rest>>

InitBus == ComponentInit(BusInitialState)

NextBus ==
    \/ publish_analysis_completed
    \/ worker_get
    \/ dispatch_attempt
    \/ dispatch_exhausted

SpecBus == InitBus /\ [][NextBus]_vars

\* C20 as stated: knowledge indexing is not retried automatically, so for
\* one ANALYSIS_COMPLETED message index_analysis is called at most once.
C20_IndexingAttemptedOnce == state.calls <= 1

\* ------------------------------------------------------------------
\* Concurrent ingestion cycles on one GraphRuntime (SpecCycles): each run
\* is a thread inside run_ingestion_cycle; `state.tickers` is
\* self.ingestion_nodes.tickers, the one IngestionNodes object all runs use.
\* ------------------------------------------------------------------
Runs == {"r1", "r2"}
TickerSets == {{"MSFT"}, {"AAPL"}, {"MSFT", "AAPL"}, {"TSLA"}}

NoRun == [pc |-> "idle", own |-> {}, polled |-> {}, payloads |-> {}]

CyclesInitialState == [tickers |-> {}, run |-> [r \in Runs |-> NoRun]]

\* a caller enters run_ingestion_cycle(tickers)
cycle_called ==
    /\ \E r \in Runs, own \in TickerSets :
        /\ state.run[r].pc = "idle"
        /\ \A o \in Runs : state.run[o].own # own
        /\ state' = [state EXCEPT !.run[r] = [NoRun EXCEPT !.pc = "set", !.own = own]]
    /\ UNCHANGED rest

\* line 203: self.ingestion_nodes.tickers = tickers
cycle_sets_tickers ==
    /\ \E r \in Runs :
        /\ state.run[r].pc = "set"
        /\ state' = [state EXCEPT !.tickers = state.run[r].own, !.run[r].pc = "poll"]
    /\ UNCHANGED rest

\* poll_edgar in the invoked graph: get_latest_filings(self.tickers); the
\* provider answers with filings of the instruments it was asked for, some
\* subset of which is new and becomes the run's payloads
cycle_polls ==
    /\ \E r \in Runs, found \in SUBSET state.tickers :
        /\ state.run[r].pc = "poll"
        /\ state' = [state EXCEPT !.run[r].polled = state.tickers,
                                  !.run[r].payloads = found,
                                  !.run[r].pc = "done"]
    /\ UNCHANGED rest

\* run_ingestion_cycle returns its payloads; the thread can be used again
cycle_returns ==
    /\ \E r \in Runs :
        /\ state.run[r].pc = "done"
        /\ state' = [state EXCEPT !.run[r] = NoRun]
    /\ UNCHANGED rest

InitCycles == ComponentInit(CyclesInitialState)

NextCycles ==
    \/ cycle_called
    \/ cycle_sets_tickers
    \/ cycle_polls
    \/ cycle_returns

SpecCycles == InitCycles /\ [][NextCycles]_vars

\* C21 as stated: a run of run_ingestion_cycle polls the provider for
\* exactly its own instruments and returns only payloads of its own
\* instruments, whatever runs concurrently on the same runtime.
C21_RunsPollTheirOwnInstruments ==
    \A r \in Runs :
        state.run[r].pc = "done" =>
            /\ state.run[r].polled = state.run[r].own
            /\ state.run[r].payloads \subseteq state.run[r].own

\* ------------------------------------------------------------------
\* Checkpoint store on its own (SpecCheckpoint): any sequence of save_state
\* and load_state calls.  `state` remembers what callers passed and got.
\* ------------------------------------------------------------------
\* the serialized states GraphRuntime saves
CheckpointStates == {"without_analysis", "with_analysis", "saved"}

CheckpointInitialState ==
    [given |-> [k \in CkptKeys |-> "none"], loaded_key |-> <<>>, loaded |-> "none"]

checkpoint_saved ==
    /\ \E k \in CkptKeys, v \in CheckpointStates :
        /\ ckpt' = save_state(ckpt, k[1], k[2], v)
        /\ state' = [state EXCEPT !.given[k] = v, !.loaded_key = <<>>, !.loaded = "none"]
    /\ UNCHANGED <<filings, bus_rest>>

checkpoint_loaded ==
    /\ \E k \in CkptKeys :
        state' = [state EXCEPT !.loaded_key = k, !.loaded = load_state(ckpt, k[1], k[2])]
    /\ UNCHANGED <<filings, ckpt, bus_rest>>

InitCheckpoint == ComponentInit(CheckpointInitialState)

NextCheckpoint == checkpoint_saved \/ checkpoint_loaded

SpecCheckpoint == InitCheckpoint /\ [][NextCheckpoint]_vars

OccurrencesIn(text, part) ==
    Cardinality({i \in 0..(Len(text) - Len(part)) : SubSeq(text, i + 1, i + Len(part)) = part})

\* a payload was emitted for a filing with a primary text of at most 1000
\* characters for which a non-empty exhibit was found
EmittedWithExhibit ==
    /\ state.emitted.accession_number # ""
    /\ AtMost1000(state.emitted.primary_text)
    /\ state.emitted.exhibit_text # EmptyText

\* C23 as stated: such a payload's raw text contains the exhibit text
\* exactly once.
C23_ExhibitExactlyOnce ==
    EmittedWithExhibit =>
        OccurrencesIn(state.emitted.raw_text, state.emitted.exhibit_text) = 1

\* C23: such a payload's raw text contains the exhibit text; the exhibit
\* is appended, after a blank line, exactly when it is not already a
\* substring of the primary text, and otherwise the raw text is the primary
\* text unchanged, so the merge never adds a second copy.
C23_ExhibitMergedWithoutDuplication ==
    EmittedWithExhibit =>
        LET raw == state.emitted.raw_text
            primary == state.emitted.primary_text
            exhibit == state.emitted.exhibit_text
        IN /\ TextContains(raw, exhibit)
           /\ raw = IF TextContains(primary, exhibit) THEN primary
                    ELSE primary \o <<"nn">> \o exhibit
           /\ TextContains(primary, exhibit) =>
                 OccurrencesIn(raw, exhibit) = OccurrencesIn(primary, exhibit)

\* the exhibit overlapped the primary text and was not appended
C23_OverlappingExhibitNotAppended ==
    /\ EmittedWithExhibit
    /\ state.emitted.primary_text = <<"a">>
    /\ state.emitted.exhibit_text = <<"a">>
    /\ state.emitted.raw_text = <<"a">>

\* ------------------------------------------------------------------
\* Query graph, derivation and synthesis (SpecQuery): answer_question on a
\* non-empty question, from the fused retrieval results on.  A confidence
\* is a number in units of 1/100000, NaN, or a value float() rejects.
\* ------------------------------------------------------------------
Num(v) == [kind |-> "num", val |-> v]
NaN == [kind |-> "nan", val |-> 0]
NotANumber == [kind |-> "text", val |-> 0]

\* what the model can put under "confidence"
ConfidenceOutputs == {Num(-50000), Num(0), Num(4), Num(12346), Num(50000), Num(150000),
                      NaN, NotANumber}

\* what the model can put under "derived_answer"
DerivedAnswers == {"", "42", "cannot determine"}

\* lengths of the model's derivation_trace
TraceLengths == {0, 2, 6}

\* _looks_like_non_answer
_looks_like_non_answer(text) == text \in {"", "cannot determine"}

\* _clamp_confidence: float(value) failing gives 0.0; NaN is neither below 0
\* nor above 1 and round(nan, 4) is NaN; round(score, 4) otherwise
_clamp_confidence(value) ==
    IF value.kind = "text" THEN Num(0)
    ELSE IF value.kind = "nan" THEN NaN
    ELSE IF value.val < 0 THEN Num(0)
    ELSE IF value.val > 100000 THEN Num(100000)
    ELSE Num(((value.val + 5) \div 10) * 10)

\* _heuristic_confidence(contexts, citations)
_heuristic_confidence(contexts, citations) ==
    IF contexts = 0 THEN Num(0)
    ELSE IF citations >= 2 THEN Num(80000)
    ELSE IF citations >= 1 THEN Num(65000)
    ELSE Num(35000)

\* `x or 0.0` followed by float(): NaN is truthy
OrZero(value) == IF value.kind = "num" THEN value ELSE IF value.kind = "nan" THEN NaN ELSE Num(0)

\* inputs of one answer_question: the number of retrieval results and the
\* JSON the model returns for the derivation prompt
QueryInitialState ==
    [results : 0..MaxResults,
     parsed : [derived_answer : DerivedAnswers, confidence : ConfidenceOutputs,
               derivation_trace : TraceLengths],
     pc : {"derive_metric"}, derived_answer : {""}, derivation_trace : {0},
     answer_confidence : {Num(0)}, answer : {[confidence |-> Num(0), derivation_trace |-> 0]}]

\* SynthesisNodes.derive_metric
derive_metric ==
    /\ state.pc = "derive_metric"
    /\ LET contexts == IF state.results < 4 THEN state.results ELSE 4
           kept == IF _looks_like_non_answer(state.parsed.derived_answer)
                   THEN "" ELSE state.parsed.derived_answer
           trace == IF state.parsed.derivation_trace < 5
                    THEN state.parsed.derivation_trace ELSE 5
       IN state' =
            IF contexts = 0
            THEN [state EXCEPT !.derived_answer = "", !.derivation_trace = 0,
                               !.answer_confidence = Num(0), !.pc = "synthesize_answer"]
            ELSE [state EXCEPT
                    !.derived_answer = kept,
                    !.derivation_trace = IF kept = "" THEN 0 ELSE trace,
                    !.answer_confidence = IF kept = "" THEN Num(0)
                                          ELSE _clamp_confidence(state.parsed.confidence),
                    !.pc = "synthesize_answer"]
    /\ UNCHANGED rest

\* SynthesisNodes.synthesize_answer and the MarkdownAnswer answer_question
\* builds from the final state; there is one citation per retrieval result
synthesize_answer ==
    /\ state.pc = "synthesize_answer"
    /\ LET confidence == OrZero(state.answer_confidence)
           final == IF confidence.kind = "num" /\ confidence.val <= 0
                    THEN _heuristic_confidence(state.results, state.results)
                    ELSE confidence
       IN state' = [state EXCEPT
                      !.answer_confidence = _clamp_confidence(final),
                      !.answer = [confidence |-> OrZero(_clamp_confidence(final)),
                                  derivation_trace |-> state.derivation_trace],
                      !.pc = "returned"]
    /\ UNCHANGED rest

InitQuery == \E st \in QueryInitialState : ComponentInit(st)

NextQuery == derive_metric \/ synthesize_answer

SpecQuery == InitQuery /\ [][NextQuery]_vars

InUnitInterval(c) == c.kind = "num" /\ c.val >= 0 /\ c.val <= 100000

\* C24 as stated: after derive_metric, with no evidence or with an empty or
\* non-answer derived answer the answer is empty, the confidence 0 and the
\* trace empty; otherwise the confidence lies in [0,1] and the trace has at
\* most 5 steps.
C24_DerivationIsClamped ==
    state.pc = "synthesize_answer" =>
        IF state.results = 0 \/ _looks_like_non_answer(state.parsed.derived_answer)
        THEN /\ state.derived_answer = ""
             /\ state.answer_confidence = Num(0)
             /\ state.derivation_trace = 0
        ELSE /\ InUnitInterval(state.answer_confidence)
             /\ state.derivation_trace <= 5

\* C25 as stated: the returned confidence lies in [0,1]; it is the
\* derivation confidence when that is greater than 0, otherwise 0.8 for at
\* least 2 citations, 0.65 for 1 and 0.0 for no contexts; the trace has at
\* most 5 steps.
C25_AnswerConfidence ==
    state.pc = "returned" =>
        LET derivation ==
                IF state.results = 0 \/ _looks_like_non_answer(state.parsed.derived_answer)
                   \/ state.parsed.confidence.kind # "num"
                THEN 0
                ELSE IF state.parsed.confidence.val > 100000 THEN 100000
                ELSE ((state.parsed.confidence.val + 5) \div 10) * 10
            expected ==
                IF derivation > 0 THEN derivation
                ELSE IF state.results = 0 THEN 0
                ELSE IF state.results >= 2 THEN 80000 ELSE 65000
        IN /\ InUnitInterval(state.answer.confidence)
           /\ state.answer.confidence.val = expected
           /\ state.answer.derivation_trace <= 5

\* ------------------------------------------------------------------
\* Knowledge stage without an analysis (SpecIndex)
\* ------------------------------------------------------------------
\* C26 as stated: run on an absent AnalysisPayload the knowledge stage
\* emits no chunk, writes nothing to the chunk store and completes without
\* raising.
C26_AbsentPayloadIsNoOp ==
    state.absent.ran =>
        /\ state.absent.chunks = <<>>
        /\ ~state.absent.wrote
        /\ state.absent.raised = "none"

\* ------------------------------------------------------------------
\* Validation and alias normalization of an extraction result
\* (SpecValidate)
\* ------------------------------------------------------------------
\* what generate_json returned, with two more shapes: an alias next to
\* another KPI, and an alias whose item lacks "value"
ValidateInputs ==
    AdapterOutputs \cup
    { Json(TRUE, TRUE, <<Kpi("EPS", TRUE), Kpi("Net Sales", TRUE)>>),
      Json(TRUE, TRUE, <<Kpi("Net Sales", FALSE)>>),
      Json(TRUE, TRUE, <<[Kpi("Revenue", TRUE) EXCEPT !.value_null = TRUE]>>) }

\* normalize_analysis_dict, its kpis: items that are dicts with a metric and
\* a value that are not None, as strings
normalize_analysis_dict(data) ==
    IF ~data.dict \/ ~data.kpis_list THEN <<>>
    ELSE SelectSeq(data.kpis,
                   LAMBDA item : /\ item.dict
                                 /\ item.metric # NoKey
                                 /\ item.has_value /\ ~item.value_null)

ValidateInitialState ==
    [raw : ValidateInputs, answer : TextAnswers,
     data : {EmptyDict}, prev : {EmptyDict}, passes : {0},
     checked : {FALSE}, verdict : {FALSE}, checked_data : {EmptyDict},
     emitted : {FALSE}, payload_kpis : {<<>>}]

InitValidate == \E st \in ValidateInitialState : ComponentInit(st)

\* ExtractionEngine.extract: the adapter's JSON, normalized
extract_called ==
    /\ state.passes = 0
    /\ state' = [state EXCEPT !.data = extract(state.raw), !.prev = state.raw,
                              !.passes = 1]
    /\ UNCHANGED rest

\* _normalize_metric_aliases applied to an already normalized result
normalize_again ==
    /\ state.passes = 1
    /\ state' = [state EXCEPT !.data = _normalize_metric_aliases(state.data),
                              !.prev = state.data, !.passes = 2]
    /\ UNCHANGED rest

\* ExtractionEngine.is_valid on the current result
is_valid_called ==
    /\ state.passes >= 1
    /\ ~state.checked
    /\ state' = [state EXCEPT !.checked = TRUE, !.checked_data = state.data,
                              !.verdict = is_valid(state.data, state.answer)]
    /\ UNCHANGED rest

\* emit_analysis_payload, reached when validate_json found the result valid:
\* the AnalysisPayload is built from the normalized result
emit_analysis_payload_called ==
    /\ state.checked /\ state.verdict
    /\ ~state.emitted
    /\ state' = [state EXCEPT !.emitted = TRUE,
                              !.payload_kpis = normalize_analysis_dict(state.checked_data)]
    /\ UNCHANGED rest

NextValidate ==
    \/ extract_called
    \/ normalize_again
    \/ is_valid_called
    \/ emit_analysis_payload_called

SpecValidate == InitValidate /\ [][NextValidate]_vars

\* an item that carries both required keys
CarriesMetricAndValue(item) == item.dict /\ item.metric # NoKey /\ item.has_value

\* revenue-equivalent: the metric is Revenue or one of its aliases, or the
\* model adjudicates the result to be revenue-equivalent
RevenueEquivalent(kpis, answer) ==
    \/ \E i \in 1..Len(kpis) : kpis[i].metric \in {"Revenue", "Net Sales"}
    \/ answer = "YES"

TickerList(tickers) ==
    [kind |-> "list", tickers |-> tickers, market |-> NoKey, exchange |-> NoKey]

IngestionDict(tickers, market, exchange) ==
    [kind |-> "dict", tickers |-> tickers, market |-> market, exchange |-> exchange]

\* what POST /ingest hands to enqueue_ingestion
IngestionRequests ==
    { TickerList({"MSFT"}),
      IngestionDict({"MSFT"}, "US_SEC", "SEC"),
      IngestionDict({"MSFT", "AAPL"}, "SEA_LOCAL", "SGX") }

\* per filing: analyze_filing returns an AnalysisPayload ("ok"), returns None
\* after dead-lettering ("dead_letter"), or raises ("raise")
AnalysisFates == [Accessions -> {"ok", "dead_letter", "raise"}]

WorkerInitialState ==
    [has_queue : BOOLEAN, request : IngestionRequests, fate : AnalysisFates,
     index_fails : BOOLEAN,
     enqueued : {FALSE}, ingestion_jobs : {<<>>}, analysis_jobs : {<<>>},
     knowledge_jobs : {<<>>},
     job : {TickerList({})}, cycle_calls : {<<>>}, returned : {<<>>},
     notify_calls : {<<>>}, analysis_issued : {0},
     results : {<<>>}, issued : {<<>>}, index_calls : {<<>>},
     raised : {FALSE}]

InitWorker == \E st \in WorkerInitialState : ComponentInit(st)

\* RedisJobQueue.enqueue_ingestion: a bare list is wrapped into the request
\* dict with the defaults, then the job is put on the ingestion queue
enqueue_ingestion ==
    /\ ~state.enqueued
    /\ LET payload == IF state.request.kind = "list"
                      THEN IngestionDict(state.request.tickers, "US_SEC", "")
                      ELSE state.request
       IN state' = [state EXCEPT !.enqueued = TRUE,
                                 !.ingestion_jobs = Append(@, payload)]
    /\ UNCHANGED rest

\* handle_knowledge(analysis_payload_dict): gr.index_analysis(payload), which
\* raises when indexing fails
handle_knowledge(st, accession) ==
    [st EXCEPT !.index_calls = Append(@, accession),
               !.raised = st.index_fails]

\* handle_analysis that issues indexing whatever analyze_filing returned
handle_analysis_indexes_dead_letter(st, accession) ==
    IF st.fate[accession] = "raise"
    THEN [st EXCEPT !.raised = TRUE,
                    !.results = Append(@, [accession |-> accession,
                                           analysis |-> "raise", status |-> "raised"])]
    ELSE LET after == [st EXCEPT !.issued = Append(@, accession),
                                 !.knowledge_jobs = Append(@, accession)]
         IN [after EXCEPT !.results =
                Append(@, [accession |-> accession, analysis |-> st.fate[accession],
                           status |-> IF st.fate[accession] = "ok"
                                      THEN "analyzed" ELSE "dead_letter"])]

\* handle_analysis(filing_payload_dict)
handle_analysis(st, accession) ==
    IF st.fate[accession] = "raise"
    THEN [st EXCEPT !.raised = TRUE,
                    !.results = Append(@, [accession |-> accession,
                                           analysis |-> "raise", status |-> "raised"])]
    ELSE IF st.fate[accession] = "dead_letter"
    THEN [st EXCEPT !.results = Append(@, [accession |-> accession,
                                           analysis |-> "dead_letter",
                                           status |-> "dead_letter"])]
    ELSE IF st.has_queue
    THEN [st EXCEPT !.issued = Append(@, accession),
                    !.knowledge_jobs = Append(@, accession),
                    !.results = Append(@, [accession |-> accession,
                                           analysis |-> "ok", status |-> "analyzed"])]
    ELSE LET after == handle_knowledge([st EXCEPT !.issued = Append(@, accession)],
                                       accession)
         IN [after EXCEPT !.results =
                Append(@, [accession |-> accession, analysis |-> "ok",
                           status |-> IF after.raised THEN "raised" ELSE "analyzed"])]

\* the loop of handle_ingestion over the returned payloads, from position i;
\* an exception of the synchronous fallback ends it
RECURSIVE ForEachPayload(_, _, _)
ForEachPayload(st, payloads, i) ==
    IF i > Len(payloads) \/ st.raised THEN st
    ELSE LET counted == [st EXCEPT !.analysis_issued = @ + 1]
         IN ForEachPayload(
                IF st.has_queue
                THEN [counted EXCEPT !.analysis_jobs = Append(@, payloads[i])]
                ELSE handle_analysis(counted, payloads[i]),
                payloads, i + 1)

\* handle_ingestion(tickers) run for the job at the head of the ingestion
\* queue: its one argument goes to run_ingestion_cycle as `tickers`, market
\* and exchange keep their defaults
handle_ingestion ==
    /\ state.ingestion_jobs # <<>>
    /\ \E payloads \in RecordLists :
         LET arg == Head(state.ingestion_jobs)
             started == [state EXCEPT
                           !.ingestion_jobs = Tail(@),
                           !.job = arg,
                           !.raised = FALSE,
                           !.cycle_calls = Append(@, [tickers |-> arg,
                                                      market |-> "US_SEC",
                                                      exchange |-> ""]),
                           !.returned = payloads,
                           !.notify_calls = Append(@, [payloads |-> payloads,
                                                       org_id |-> "default"])]
         IN state' = ForEachPayload(started, payloads, 1)
    /\ UNCHANGED rest

\* an rq worker takes the analysis job at the head of the queue
handle_analysis_job ==
    /\ state.analysis_jobs # <<>>
    /\ state' = handle_analysis([state EXCEPT !.analysis_jobs = Tail(@),
                                              !.raised = FALSE],
                                Head(state.analysis_jobs))
    /\ UNCHANGED rest

\* an rq worker takes the knowledge job at the head of the queue
handle_knowledge_job ==
    /\ state.knowledge_jobs # <<>>
    /\ state' = handle_knowledge([state EXCEPT !.knowledge_jobs = Tail(@),
                                               !.raised = FALSE],
                                 Head(state.knowledge_jobs))
    /\ UNCHANGED rest

NextWorker ==
    \/ enqueue_ingestion
    \/ handle_ingestion
    \/ handle_analysis_job
    \/ handle_knowledge_job

SpecWorker == InitWorker /\ [][NextWorker]_vars

\* the handle_analysis calls for filing a whose analyze_filing succeeded
SucceededAnalyses(a) ==
    {i \in 1..Len(state.results) :
        state.results[i].accession = a /\ state.results[i].analysis = "ok"}

\* the indexing requests issued for filing a
IssuedFor(a) == {i \in 1..Len(state.issued) : state.issued[i] = a}

\* C28: indexing of a filing is issued once per successful analysis of it
\* and never otherwise (a knowledge job with a queue, the synchronous
\* handle_knowledge call without one); a dead-lettered analysis issues no
\* indexing and handle_analysis returns status dead_letter.
C28_IndexingOnlyAfterAnalysis ==
    /\ \A a \in Accessions :
          Cardinality(IssuedFor(a)) = Cardinality(SucceededAnalyses(a))
    /\ \A i \in 1..Len(state.results) :
          state.results[i].analysis = "dead_letter"
              => state.results[i].status = "dead_letter"
    /\ \A i \in 1..Len(state.results) :
          state.results[i].status = "analyzed" => state.results[i].analysis = "ok"
    /\ Len(state.index_calls) <= Len(state.issued)
    /\ \A i \in 1..Len(state.index_calls) : state.index_calls[i] = state.issued[i]
    /\ ~state.has_queue => state.index_calls = state.issued

\* one filing analyzed and indexed, another dead-lettered without indexing
C28_OneIndexedOneDeadLettered ==
    /\ \E i \in 1..Len(state.results) : state.results[i].status = "dead_letter"
    /\ \E i \in 1..Len(state.results) : state.results[i].status = "analyzed"
    /\ Len(state.issued) = 1

\* C29 as stated: the job {tickers: T, market: M, exchange: E} makes
\* handle_ingestion call run_ingestion_cycle(T, market=M, exchange=E) exactly
\* once, and one analysis job is issued per returned payload.
C29_CycleOverRequestedInstruments ==
    state.job.kind = "dict" =>
        /\ Len(state.cycle_calls) = 1
        /\ state.cycle_calls[1] = [tickers |-> TickerList(state.job.tickers),
                                   market |-> state.job.market,
                                   exchange |-> state.job.exchange]
        /\ (~state.raised => state.analysis_issued = Len(state.returned))

\* ------------------------------------------------------------------
\* In-app notifications for new filings: create_filing_notifications over
\* the watchlists and notifications tables of a state store (SpecNotify)
\* ------------------------------------------------------------------
Orgs == {"o1", "o2"}

UsersInOrder == <<"u1", "u2">>

WatchedTickers == {"MSFT", "AAPL"}

\* the ticker of the filing payload with this accession number
TickerOf(accession) == IF accession = "A1" THEN "MSFT" ELSE "AAPL"

NotifyInitialState ==
    [store : Backends, watchlists : {{}}, notifications : {<<>>},
     called : {FALSE}, org_id : {"o1"}, payloads : {<<>>},
     return_value : {0}, raised : {"none"}]

InitNotify == \E st \in NotifyInitialState : ComponentInit(st)

\* add_watchlist_ticker: INSERT ... ON CONFLICT(org_id, user_id, ticker) DO NOTHING
add_watchlist_ticker ==
    /\ ~state.called
    /\ \E org \in Orgs, i \in 1..Len(UsersInOrder), ticker \in WatchedTickers :
         state' = [state EXCEPT !.watchlists = @ \cup {<<org, UsersInOrder[i], ticker>>}]
    /\ UNCHANGED rest

\* list_watchlist_subscribers(org_id, ticker): the user_id column of the
\* watchlist rows of that org and ticker (payloads carry no market attribute,
\* so the lookup is for the default market of every watchlist row)
list_watchlist_subscribers(st, org, ticker) ==
    SelectSeq(UsersInOrder, LAMBDA u : <<org, u, ticker>> \in st.watchlists)

\* create_notification: one unread row appended to the notifications table
create_notification(rows, org, user, ticker, accession) ==
    Append(rows, [org_id |-> org, user_id |-> user, ticker |-> ticker,
                  accession_number |-> accession,
                  notification_type |-> "FILING_FOUND", is_read |-> FALSE])

\* the inner loop of create_filing_notifications over the subscribers
RECURSIVE NotifySubscribers(_, _, _, _, _)
NotifySubscribers(rows, org, subscribers, accession, i) ==
    IF i > Len(subscribers) THEN rows
    ELSE NotifySubscribers(
            create_notification(rows, org, subscribers[i], TickerOf(accession), accession),
            org, subscribers, accession, i + 1)

\* the outer loop over the payloads, from position i; `created` counts the
\* create_notification calls
RECURSIVE NotifyPayloads(_, _, _, _)
NotifyPayloads(st, org, payloads, i) ==
    IF i > Len(payloads) THEN st
    ELSE LET subscribers == list_watchlist_subscribers(st, org, TickerOf(payloads[i]))
         IN NotifyPayloads(
                [st EXCEPT !.notifications =
                               NotifySubscribers(@, org, subscribers, payloads[i], 1),
                           !.return_value = @ + Len(subscribers)],
                org, payloads, i + 1)

\* create_filing_notifications(state_manager, filing_payloads, org_id): the
\* helper passes market= and exchange= to list_watchlist_subscribers and
\* create_notification; the SQLite StateManager takes neither keyword, so the
\* first payload raises TypeError before any row is written
create_filing_notifications ==
    /\ ~state.called
    /\ \E org \in Orgs, payloads \in RecordLists :
         LET started == [state EXCEPT !.called = TRUE, !.org_id = org,
                                      !.payloads = payloads]
         IN state' = IF state.store = "sqlite" /\ payloads # <<>>
                     THEN [started EXCEPT !.raised = "TypeError"]
                     ELSE NotifyPayloads(started, org, payloads, 1)
    /\ UNCHANGED rest

NextNotify == add_watchlist_ticker \/ create_filing_notifications

SpecNotify == InitNotify /\ [][NextNotify]_vars

\* the unread notifications of (org, user) about this filing
UnreadRows(org, user, accession) ==
    {i \in 1..Len(state.notifications) :
        /\ state.notifications[i].org_id = org
        /\ state.notifications[i].user_id = user
        /\ state.notifications[i].accession_number = accession
        /\ state.notifications[i].ticker = TickerOf(accession)
        /\ ~state.notifications[i].is_read}

\* the payloads of the call that are about this filing
PayloadsAbout(accession) ==
    {i \in 1..Len(state.payloads) : state.payloads[i] = accession}

\* C30 as stated: create_filing_notifications(state, payloads, org_id)
\* creates exactly one unread notification per pair (payload, user of org_id
\* subscribed to the payload's ticker), none for users of another org, and
\* returns the number of notifications it created.
C30_OneNotificationPerSubscriberAndPayload ==
    state.called =>
        /\ state.raised = "none"
        /\ \A org \in Orgs, k \in 1..Len(UsersInOrder), a \in Accessions :
              Cardinality(UnreadRows(org, UsersInOrder[k], a)) =
                  IF org = state.org_id
                     /\ <<org, UsersInOrder[k], TickerOf(a)>> \in state.watchlists
                  THEN Cardinality(PayloadsAbout(a))
                  ELSE 0
        /\ state.return_value = Len(state.notifications)

\* ------------------------------------------------------------------
\* Chunk store and filing status after index_analysis (SpecIndex,
\* SpecIndexFaults)
\* ------------------------------------------------------------------
\* the rows of the chunk store derived from this accession
StoredChunksOf(accession) ==
    {r \in RowSet(state.rows) : r.metadata.accession_number = accession}

\* C31 as stated: in every reachable state a filing whose status is
\* ANALYZED_NOT_INDEXED has no chunk in the chunk store (and so none that a
\* retrieval could return).
C31_NotIndexedIsNotSearchable ==
    \A a \in Accessions :
        filings[a].status = "ANALYZED_NOT_INDEXED" => StoredChunksOf(a) = {}

\* C36 as stated: after index_analysis(A) succeeded for accession X, the
\* chunks stored for X are exactly the chunks derived from A; no chunk of an
\* earlier analysis of X remains.
C36_StoredChunksAreThoseOfLastAnalysis ==
    state.payload # NoPayload =>
        StoredChunksOf(state.payload.accession_number)
            = RowSet(chunk_kpi_and_summary(state.payload))

\* ------------------------------------------------------------------
\* replay_filing: durable status after a successful replay (Spec)
\* ------------------------------------------------------------------
\* C32 as stated: when replay_filing returns status ok with indexed = true,
\* in either resolved mode, the filing's durable status is ANALYZED.
C32_IndexedReplayIsAnalyzed ==
    (pc = "returned" /\ ret.op = "replay" /\ ret.kind = "ok" /\ ret.indexed) =>
        StatusOf(ret.acc) = "ANALYZED"

\* ------------------------------------------------------------------
\* Ingestion cycle: filings recorded and filings handed over (SpecIngestion)
\* ------------------------------------------------------------------
\* the filings this cycle recorded as INGESTED: polled, unknown at poll time
\* and now in the state store
RecordedByCycle ==
    {a \in Accessions :
        /\ \E i \in 1..Len(state.polled) : state.polled[i] = a
        /\ a \notin state.known_at_poll
        /\ has_accession(filings, a)}

\* C33 as stated: every filing an ingestion cycle records as INGESTED is
\* handed to the caller as a payload of that same cycle, whatever happens to
\* the later filings of the cycle.
C33_RecordedFilingsAreReturned ==
    (pc = "returned" /\ ret.op = "ingest") =>
        \A a \in RecordedByCycle :
            /\ ret.kind = "payloads"
            /\ \E i \in 1..Len(ret.payloads) : ret.payloads[i] = a

\* ------------------------------------------------------------------
\* Ingestion cycles of two workers over one state store (SpecWorkers): each
\* worker process has its own GraphRuntime and ingestion graph, the filing
\* table is shared.  The nodes between poll_edgar and emit_filing_payload
\* touch only the worker's own graph state, so a worker's step is the poll,
\* or the fetch .. emit pass for the filing at the head of its queue.
\* ------------------------------------------------------------------
Workers == {"w1", "w2"}

\* provider answers that list no accession twice
DistinctRecordLists ==
    {recs \in RecordLists : \A i, j \in 1..Len(recs) : i # j => recs[i] # recs[j]}

WorkersInitialState ==
    [graph |-> [w \in Workers |-> [pc |-> "idle", st |-> IngestionInitialState]],
     emitted |-> [a \in Accessions |-> 0]]

InitWorkers == ComponentInit(WorkersInitialState)

\* run_ingestion_cycle starts: poll_edgar filters the provider's records by
\* has_accession
worker_polls ==
    /\ \E w \in Workers, recs \in DistinctRecordLists :
        /\ state.graph[w].pc = "idle"
        /\ state' = [state EXCEPT
                       !.graph[w] = [pc |-> "loop",
                                     st |-> poll_edgar(IngestionInitialState, filings, recs)]]
    /\ UNCHANGED <<filings, ckpt>>
    /\ UNCHANGED bus_rest

\* fetch_full_text .. emit_filing_payload for the head of the queue: the
\* payload is appended and the filing marked INGESTED
worker_emits ==
    /\ \E w \in Workers :
        /\ state.graph[w].pc = "loop"
        /\ state.graph[w].st.filings_queue # <<>>
        /\ LET fetched == fetch_full_text(state.graph[w].st, <<"LONG">>)
               a == fetched.current_filing.accession_number
           IN /\ state' = [state EXCEPT !.graph[w].st = emit_filing_payload(fetched),
                                        !.emitted[a] = @ + 1]
              /\ filings' = mark_ingested(backend, filings, a).filings
    /\ UNCHANGED ckpt
    /\ UNCHANGED bus_rest

\* route_continue_or_end = "end": the cycle returns its payloads
worker_returns ==
    /\ \E w \in Workers :
        /\ state.graph[w].pc = "loop"
        /\ route_continue_or_end(state.graph[w].st) = "end"
        /\ state' = [state EXCEPT !.graph[w].pc = "idle"]
    /\ UNCHANGED <<filings, ckpt>>
    /\ UNCHANGED bus_rest

NextWorkers == worker_polls \/ worker_emits \/ worker_returns

SpecWorkers == InitWorkers /\ [][NextWorkers]_vars

\* C35 as stated: across any number of ingestion cycles, also cycles run
\* concurrently by different workers, each accession is emitted as a payload
\* at most once.
C35_EmittedAtMostOnce == \A a \in Accessions : state.emitted[a] <= 1

\* ------------------------------------------------------------------
\* The AnalysisPayload of an accepted extraction result (SpecValidate)
\* ------------------------------------------------------------------
\* C37 as stated: every AnalysisPayload of a successful analysis has at
\* least one KPI, each with a metric and a value: a result accepted by
\* is_valid never normalizes to an empty KPI list.
C37_AcceptedResultKeepsItsKpis ==
    state.emitted =>
        /\ Len(state.payload_kpis) >= 1
        /\ \A i \in 1..Len(state.payload_kpis) :
              /\ state.payload_kpis[i].metric # NoKey
              /\ state.payload_kpis[i].has_value
              /\ ~state.payload_kpis[i].value_null

\* ------------------------------------------------------------------
\* Termination of an ingestion cycle (SpecIngestionLive)
\* ------------------------------------------------------------------
\* a node of the invoked ingestion graph, or the return of the cycle: once
\* run_ingestion_cycle is called, graph.invoke runs the nodes to the end
CycleStep ==
    \/ step_poll_edgar
    \/ step_dedupe_check
    \/ step_fetch_full_text
    \/ step_fetch_exhibits
    \/ step_merge_text
    \/ step_emit_filing_payload
    \/ ingestion_cycle_returns

SpecIngestionLive == SpecIngestion /\ WF_vars(CycleStep)

\* C38: an ingestion cycle over a finite list of records terminates: each
\* pass through emit_payload removes exactly one record from the queue, the
\* graph goes back to fetch_full_text exactly when the queue is not empty,
\* and fetch_full_text on an empty queue ends the cycle with no payload
\* added, no status written and no error.
C38_CycleTerminates ==
    /\ [][(pc = "emit_payload" /\ state.current_filing # NoFiling) =>
            /\ Len(state'.filings_queue) = Len(state.filings_queue) - 1
            /\ (pc' = "fetch_full_text" <=> state'.filings_queue # <<>>)
            /\ (pc' = "END" <=> state'.filings_queue = <<>>)]_vars
    /\ [][(pc = "fetch_full_text" /\ state.filings_queue = <<>>) =>
            /\ pc' = "END"
            /\ state'.current_filing = NoFiling
            /\ state'.filing_payloads = state.filing_payloads
            /\ filings' = filings]_vars
    /\ (pc = "poll_edgar" ~> pc = "returned")

\* a cycle went through emit_payload twice and returned both payloads
C38_TwoPassesThenEnd ==
    /\ CycleReturned
    /\ Len(ret.payloads) = 2
    /\ state.filings_queue = <<>>

\* ------------------------------------------------------------------
\* EventBus with two handlers subscribed to one topic (SpecHandlers,
\* SpecHandlersLive).  Messages are numbered in publish order; `calls` logs
\* every handler invocation of the worker thread with its outcome.
\* ------------------------------------------------------------------
\* self._subscribers[topic], in subscription order
Handlers == <<"h1", "h2">>

HandlersInitialState ==
    [queue |-> <<>>, published |-> 0, message |-> 0, handler |-> 0, attempt |-> 0,
     calls |-> <<>>]

InitHandlers == ComponentInit(HandlersInitialState)

\* publish: self._queue.put(message)
bus_publish ==
    /\ state.published < MaxMessages
    /\ state' = [state EXCEPT !.published = @ + 1, !.queue = Append(@, state.published + 1)]
    /\ UNCHANGED rest

\* _worker_loop: queue.get returns the oldest message and the loop over its
\* handlers starts
bus_worker_get ==
    /\ state.message = 0
    /\ state.queue # <<>>
    /\ state' = [state EXCEPT !.message = Head(state.queue), !.queue = Tail(state.queue),
                              !.handler = 1, !.attempt = 0]
    /\ UNCHANGED rest

\* the worker after the dispatch of the current handler has ended: the next
\* handler of the message, or task_done after the last one
NextHandler(st) ==
    IF st.handler < Len(Handlers)
    THEN [st EXCEPT !.handler = @ + 1, !.attempt = 0]
    ELSE [st EXCEPT !.message = 0, !.handler = 0, !.attempt = 0]

\* variant: a handler that used up its attempts ends the message
bus_handler_call_gives_up_on_message ==
    /\ state.message # 0
    /\ \E ok \in BOOLEAN :
        LET logged == [state EXCEPT !.calls = Append(@, [message |-> state.message,
                                                        handler |-> state.handler,
                                                        ok |-> ok])]
        IN state' = IF ok THEN NextHandler(logged)
                    ELSE IF state.attempt + 1 <= max_retries
                    THEN [logged EXCEPT !.attempt = @ + 1]
                    ELSE [logged EXCEPT !.message = 0, !.handler = 0, !.attempt = 0]
    /\ UNCHANGED rest

\* _dispatch_with_retry, one pass of `while attempt <= self._max_retries`:
\* handler(message) returns and the dispatch ends, or raises and the attempt
\* is counted; after the last attempt the loop ends without raising
bus_handler_call ==
    /\ state.message # 0
    /\ \E ok \in BOOLEAN :
        LET logged == [state EXCEPT !.calls = Append(@, [message |-> state.message,
                                                        handler |-> state.handler,
                                                        ok |-> ok])]
        IN state' = IF ok THEN NextHandler(logged)
                    ELSE IF state.attempt + 1 <= max_retries
                    THEN [logged EXCEPT !.attempt = @ + 1]
                    ELSE NextHandler(logged)
    /\ UNCHANGED rest

NextHandlers == bus_publish \/ bus_worker_get \/ bus_handler_call

SpecHandlers == InitHandlers /\ [][NextHandlers]_vars

\* the worker thread keeps running while the bus is started
SpecHandlersLive == SpecHandlers /\ WF_vars(bus_worker_get \/ bus_handler_call)

\* the invocations of handler h for message m, as positions of the log
CallsOf(m, h) ==
    {i \in 1..Len(state.calls) : state.calls[i].message = m /\ state.calls[i].handler = h}

\* C39: per message and handler the bus makes at most max_retries + 1
\* invocations and none after one that succeeded; invocations follow publish
\* order and, within a message, subscription order; and whatever fails,
\* every handler is eventually invoked for every published message.
C39_BoundedRetriesAndProgress ==
    /\ [](\A m \in 1..MaxMessages, h \in 1..Len(Handlers) :
            /\ Cardinality(CallsOf(m, h)) <= max_retries + 1
            /\ \A i, j \in CallsOf(m, h) : i < j => ~state.calls[i].ok)
    /\ [](\A i, j \in 1..Len(state.calls) :
            i < j => \/ state.calls[i].message < state.calls[j].message
                     \/ /\ state.calls[i].message = state.calls[j].message
                        /\ state.calls[i].handler <= state.calls[j].handler)
    /\ \A m \in 1..MaxMessages, h \in 1..Len(Handlers) :
            (state.published >= m) ~> (CallsOf(m, h) # {})

\* the first handler failed on every attempt for the first message; the
\* second handler and the second message were dispatched all the same
C39_FailingHandlerDidNotBlock ==
    /\ Cardinality(CallsOf(1, 1)) = max_retries + 1
    /\ \A i \in CallsOf(1, 1) : ~state.calls[i].ok
    /\ CallsOf(1, 2) # {}
    /\ CallsOf(2, 1) # {}

\* ---------------------------------------------------------------------------
\* answer_question with a ticker: GraphRuntime.answer_question puts `ticker`
\* into the query graph's state; the retrieval nodes search the chunk table
\* ---------------------------------------------------------------------------

AnswerTickers == {"MSFT", "AAPL"}
QuestionTokens == 2
ChunkTokens == 3
RetrievalTopK == 8

\* a row of the chunks table: `overlap` is the number of question tokens in
\* the chunk's text, `tokens` the size of the chunk's token set
ChunkRows ==
    [id : RrfIds, overlap : 0..QuestionTokens, tokens : {ChunkTokens},
     ticker : AnswerTickers, kind : {"summary"}]

\* the filing a chunk was cut from: one filing per ticker
AccessionOfTicker(ticker) == IF ticker = "MSFT" THEN "A1" ELSE "A2"

\* INSERT OR REPLACE INTO chunks: a replaced row gets a new rowid
insert_or_replace_chunk(rows, row) ==
    Append(SelectSeq(rows, LAMBDA r : r.id # row.id), row)

\* SELECT ... FROM chunks [WHERE json_extract(metadata_json, '$.ticker') = ?]
select_chunks(rows, ticker) ==
    IF ticker # NoKey THEN SelectSeq(rows, LAMBDA r : r.ticker = ticker) ELSE rows

\* results.sort(key=score, reverse=True): descending and stable; Higher(a, b)
\* says that a scores strictly above b
SortedByScore(found, Higher(_, _)) ==
    LET Position(p) ==
            1 + Cardinality({q \in 1..Len(found) : Higher(found[q], found[p])})
              + Cardinality({q \in 1..Len(found) :
                                q < p /\ ~Higher(found[q], found[p])
                                      /\ ~Higher(found[p], found[q])})
    IN [i \in 1..Len(found) |-> found[CHOOSE p \in 1..Len(found) : Position(p) = i]]

FirstTopK(results, top_k) ==
    SubSeq(results, 1, IF top_k < Len(results) THEN top_k ELSE Len(results))

\* HybridRAGEngine.semantic_search: Jaccard score
\* overlap / |q_tokens union c_tokens|, compared exactly by cross-multiplying
semantic_search(rows, top_k, ticker) ==
    LET Union(r) == QuestionTokens + r.tokens - r.overlap
        Higher(a, b) == a.overlap * Union(b) > b.overlap * Union(a)
        found == SelectSeq(select_chunks(rows, ticker), LAMBDA r : r.overlap > 0)
    IN FirstTopK(SortedByScore(found, Higher), top_k)

\* HybridRAGEngine.keyword_search without a BM25 index: score = overlap
keyword_search(rows, top_k, ticker) ==
    LET Higher(a, b) == a.overlap > b.overlap
        found == SelectSeq(select_chunks(rows, ticker), LAMBDA r : r.overlap > 0)
    IN FirstTopK(SortedByScore(found, Higher), top_k)

ChunkIdsOf(results) == [i \in 1..Len(results) |-> results[i].id]

\* variant: the retrieval nodes hand the state's ticker to the searches
retrieve_and_fuse_with_ticker(rows, ticker) ==
    LET semantic == semantic_search(rows, RetrievalTopK, ticker)
        keyword == keyword_search(rows, RetrievalTopK, ticker)
        fused == reciprocal_rank_fusion(ChunkIdsOf(semantic), ChunkIdsOf(keyword),
                                        RetrievalTopK)
    IN [i \in 1..Len(fused) |->
            CHOOSE r \in {rows[j] : j \in 1..Len(rows)} : r.id = fused[i].chunk_id]

\* SynthesisNodes.retrieve_semantic, retrieve_keyword and rrf_fuse: the
\* searches are called with the question and top_k=8 only; `ticker` is the
\* value answer_question stored in the state, which no node reads
retrieve_and_fuse(rows, ticker) ==
    LET semantic == semantic_search(rows, RetrievalTopK, NoKey)
        keyword == keyword_search(rows, RetrievalTopK, NoKey)
        fused == reciprocal_rank_fusion(ChunkIdsOf(semantic), ChunkIdsOf(keyword),
                                        RetrievalTopK)
    IN [i \in 1..Len(fused) |->
            CHOOSE r \in {rows[j] : j \in 1..Len(rows)} : r.id = fused[i].chunk_id]

\* SynthesisNodes.synthesize_answer: "%s:%s" % (accession_number, kind)
answer_citations(retrieval_results) ==
    [i \in 1..Len(retrieval_results) |->
        <<AccessionOfTicker(retrieval_results[i].ticker), retrieval_results[i].kind>>]

AnswerInitialState ==
    [rows |-> <<>>, answered |-> FALSE, ticker |-> NoKey,
     retrieval_results |-> <<>>, citations |-> <<>>]

InitAnswer == ComponentInit(AnswerInitialState)

\* HybridRAGEngine.add_documents for one chunk; the answer kept in `state` is
\* the one of the last call on the present corpus
add_chunk ==
    /\ \E row \in ChunkRows :
          state' = [AnswerInitialState EXCEPT
                       !.rows = insert_or_replace_chunk(state.rows, row)]
    /\ UNCHANGED rest

\* GraphRuntime.answer_question(question, ticker): the query graph runs to
\* its end and the MarkdownAnswer carries final_state["answer_citations"]
answer_question ==
    /\ \E ticker \in AnswerTickers \cup {NoKey} :
          LET retrieval_results == retrieve_and_fuse(state.rows, ticker)
          IN state' = [state EXCEPT
                          !.answered = TRUE,
                          !.ticker = ticker,
                          !.retrieval_results = retrieval_results,
                          !.citations = answer_citations(retrieval_results)]
    /\ UNCHANGED rest

NextAnswer == add_chunk \/ answer_question

SpecAnswer == InitAnswer /\ [][NextAnswer]_vars

\* C40: when answer_question is given a ticker, every citation of the answer
\* comes from a chunk whose metadata ticker is that ticker, and the citations
\* are those the same question gets on the corpus without the chunks of the
\* other tickers
C40_CitationsOnlyFromGivenTicker ==
    [][answer_question /\ state'.ticker # NoKey =>
          /\ \A i \in 1..Len(state'.retrieval_results) :
                state'.retrieval_results[i].ticker = state'.ticker
          /\ state'.citations =
                answer_citations(retrieve_and_fuse(
                    select_chunks(state.rows, state'.ticker), state'.ticker))]_vars

\* ---------------------------------------------------------------------------
\* The batch pipeline under fair scheduling: run_backfill is called again and
\* again, and every call that has started runs on until it returns or raises
\* ---------------------------------------------------------------------------

NextBackfill ==
    \/ run_backfill
    \/ run_backfill_analyze
    \/ run_backfill_not_analyzed
    \/ run_backfill_after_analysis
    \/ run_backfill_returns
    \/ caller_receives

SpecBackfillLive == Init /\ [][NextBackfill]_vars /\ WF_vars(NextBackfill)

PipelineTerminalStatuses == {"ANALYZED", "ANALYZED_NOT_INDEXED", "DEAD_LETTER"}

\* C34: under fair scheduling every filing emitted by ingestion (recorded as
\* INGESTED) eventually reaches ANALYZED, ANALYZED_NOT_INDEXED or DEAD_LETTER;
\* no filing remains INGESTED forever
C34_EmittedReachesTerminal ==
    \A a \in Accessions :
        (StatusOf(a) = "INGESTED") ~> (StatusOf(a) \in PipelineTerminalStatuses)


====
